---------------------------- MODULE Spec2Model ----------------------------
(***************************************************************************)
(* Adaptive LSB steganography engine (LSBPP): texture analysis, capacity   *)
(* mapping, seeded pixel ordering, the bit embed/extract loops and the     *)
(* envelope stream that carries the (optionally encrypted) payload.        *)
(*                                                                         *)
(* Numeric conventions.  Maps that the code keeps as float32 in [0,1]      *)
(* (gradient, entropy, surface score) are fixed-point integers in units of *)
(* 1/Scale.  Gray levels are kept exactly in thousandths (the BT.601       *)
(* weights have three decimals).  Bytes are integers 0..255, byte strings  *)
(* and text strings are sequences of bytes, pixel buffers are functions    *)
(* from the flat index 0..H*W-1 to <<R, G, B>>.                            *)
(***************************************************************************)
EXTENDS Integers, Sequences, FiniteSets, TLC

\* ------------------------------------------------------------------ bounds
\* side of the square cover images
Side == 12
\* longest payload, in bytes
MaxPayload == 1
\* length of the AEAD tag appended to a ciphertext (library-defined)
TagLen == 1
\* length of an RSA-OAEP wrapped key (depends on the key's modulus)
EkLen == 2

\* fixed-point resolution of the [0,1] maps
Scale == 10^4

H == Side
W == Side
NumPixels == H * W
Pixels == 0 .. (NumPixels - 1)
Byte == 0 .. 255

\* -------------------------------------------------------- generic helpers
Min2(a, b) == IF a < b THEN a ELSE b
Max2(a, b) == IF a > b THEN a ELSE b

\* the function f as an explicit table (evaluated once, not per application)
Table(f) == f @@ <<>>

RECURSIVE SumRange(_, _, _)
\* f[lo] + ... + f[hi]
SumRange(f, lo, hi) ==
    IF lo > hi THEN 0
    ELSE IF lo = hi THEN f[lo]
    ELSE LET mid == (lo + hi) \div 2
         IN SumRange(f, lo, mid) + SumRange(f, mid + 1, hi)

RECURSIVE SqrtSearch(_, _, _)
\* largest r in lo..hi with r*r <= n (hi*hi > n or hi is the cap)
SqrtSearch(n, lo, hi) ==
    IF lo >= hi THEN lo
    ELSE LET mid == (lo + hi + 1) \div 2
         IN IF mid * mid <= n THEN SqrtSearch(n, mid, hi)
                              ELSE SqrtSearch(n, lo, mid - 1)

\* np.sqrt on a non-negative value, truncated to the fixed-point grid
Sqrt(n) == SqrtSearch(n, 0, 46340)

\* ------------------------------------------------------- texture analysis
\* value & 0xFE
ClearLsb(v) == (v \div 2) * 2

\* _preprocess_image: LSB-masked BT.601 luma of one pixel, in thousandths
PreprocessPixelUnmasked(p) == 299 * p[1] + 587 * p[2] + 114 * p[3]
PreprocessPixel(p) ==
    299 * ClearLsb(p[1]) + 587 * ClearLsb(p[2]) + 114 * ClearLsb(p[3])

\* _preprocess_image: the gray map (thousandths of a gray level)
PreprocessImage(px) == Table([f \in Pixels |-> PreprocessPixel(px[f])])

\* _sobel_reflect_jit: gradient magnitude with edge-clamped neighbours,
\* in tenths of a gray level
SobelMagnitude(gray) ==
    Table([f \in Pixels |->
        LET y == f \div W
            x == f % W
            xL == Max2(x - 1, 0)
            xR == Min2(x + 1, W - 1)
            yT == Max2(y - 1, 0)
            yB == Min2(y + 1, H - 1)
            g(yy, xx) == gray[yy * W + xx]
            gx == (g(yT, xR) + 2 * g(y, xR) + g(yB, xR))
                  - (g(yT, xL) + 2 * g(y, xL) + g(yB, xL))
            gy == (g(yB, xL) + 2 * g(yB, x) + g(yB, xR))
                  - (g(yT, xL) + 2 * g(yT, x) + g(yT, xR))
            gx10 == IF gx >= 0 THEN gx \div 100 ELSE -((-gx) \div 100)
            gy10 == IF gy >= 0 THEN gy \div 100 ELSE -((-gy) \div 100)
        IN Sqrt(gx10 * gx10 + gy10 * gy10)])

\* compute_normalized_sobel: min-max normalisation to [0,1]
ComputeNormalizedSobelFlatMid(gray) ==
    LET mag == SobelMagnitude(gray)
        mags == {mag[f] : f \in Pixels}
        mag_min == CHOOSE v \in mags : \A u \in mags : v <= u
        mag_max == CHOOSE v \in mags : \A u \in mags : v >= u
    IN Table([f \in Pixels |->
                 IF mag_max - mag_min = 0 THEN Scale \div 2
                 ELSE ((mag[f] - mag_min) * Scale) \div (mag_max - mag_min)])
ComputeNormalizedSobel(gray) ==
    LET mag == SobelMagnitude(gray)
        mags == {mag[f] : f \in Pixels}
        mag_min == CHOOSE v \in mags : \A u \in mags : v <= u
        mag_max == CHOOSE v \in mags : \A u \in mags : v >= u
        denom == IF mag_max - mag_min = 0 THEN 10 ELSE mag_max - mag_min
    IN Table([f \in Pixels |-> ((mag[f] - mag_min) * Scale) \div denom])

\* np.pad(..., mode="reflect"): source index of padded position idx
Reflect(idx, n) ==
    IF n = 1 THEN 0
    ELSE LET period == 2 * (n - 1)
             m == idx % period
         IN IF m < n THEN m ELSE period - m

\* -(p * log2(p)) for p = count/25, count = 0..25, in units of 1e-5
EntropyLookup ==
    <<0, 18575, 29151, 36707, 42302, 46439, 49413, 51422, 52603, 53062,
      52877, 52115, 50827, 49058, 46844, 44218, 41207, 37835, 34123, 30091,
      25754, 21129, 16229, 11067, 5654, 0>>

\* compute_local_entropy with window_size = 5: Shannon entropy of the 5x5
\* window of truncated gray levels, divided by 8, clamped to [0,1]
ComputeLocalEntropy(gray) ==
    LET gray_u8 == Table([f \in Pixels |-> Min2(Max2(gray[f] \div 1000, 0), 255)])
        Win == 0 .. 24
    IN Table([f \in Pixels |->
          LET y == f \div W
              x == f % W
              val(wy, wx) ==
                  gray_u8[Reflect(y + wy - 2, H) * W + Reflect(x + wx - 2, W)]
              vals == Table([q \in Win |-> val(q \div 5, q % 5)])
              \* one term per gray level present: at its first window position
              terms == Table([q \in Win |->
                          IF \E r \in 0 .. q - 1 : vals[r] = vals[q] THEN 0
                          ELSE EntropyLookup[
                                   Cardinality({r \in Win : vals[r] = vals[q]}) + 1]])
              ent == SumRange(terms, 0, 24) \div (8 * (10^5 \div Scale))
          IN Min2(Max2(ent, 0), Scale)])

\* compute_texture_features: gray, gradient, entropy and surface maps
ComputeTextureFeatures(px) ==
    LET gray == PreprocessImage(px)
        grad_norm == ComputeNormalizedSobel(gray)
        entropy_norm == ComputeLocalEntropy(gray)
        surface == Table([f \in Pixels |->
                      Min2(Max2((6 * grad_norm[f] + 4 * entropy_norm[f]) \div 10, 0),
                           Scale)])
    IN [gray |-> gray, grad |-> grad_norm, entropy |-> entropy_norm,
        surface |-> surface]

\* _compute_capacity_jit: bits per pixel for one surface score
CapacityOfInclusive(val) ==
    IF val * 100 >= 65 * Scale THEN 3
    ELSE IF val * 100 >= 25 * Scale THEN 2
    ELSE IF val * 100 >= 15 * Scale THEN 1
    ELSE 0
CapacityOf(val) ==
    IF val * 100 > 65 * Scale THEN 3
    ELSE IF val * 100 > 25 * Scale THEN 2
    ELSE IF val * 100 > 15 * Scale THEN 1
    ELSE 0

\* compute_capacity: the capacity map of a surface map
ComputeCapacity(surface_map) ==
    Table([f \in DOMAIN surface_map |-> CapacityOf(surface_map[f])])

\* ------------------------------------------------------------- bitstream
\* bytes_to_bits: 8 bits per byte, most significant first
BytesToBitsLsbFirst(data) ==
    Table([k \in 1 .. 8 * Len(data) |->
              (data[((k - 1) \div 8) + 1] \div (2 ^ ((k - 1) % 8))) % 2])
BytesToBits(data) ==
    Table([k \in 1 .. 8 * Len(data) |->
              (data[((k - 1) \div 8) + 1] \div (2 ^ (7 - ((k - 1) % 8)))) % 2])

\* bits_to_bytes: whole bytes only, the incomplete tail is dropped
BitsToBytes(bits) ==
    LET length == (Len(bits) \div 8) * 8
    IN Table([b \in 1 .. (length \div 8) |->
                 LET i == (b - 1) * 8
                 IN   (bits[i + 1] % 2) * 128 + (bits[i + 2] % 2) * 64
                    + (bits[i + 3] % 2) * 32 + (bits[i + 4] % 2) * 16
                    + (bits[i + 5] % 2) * 8 + (bits[i + 6] % 2) * 4
                    + (bits[i + 7] % 2) * 2 + (bits[i + 8] % 2)])

\* Python slice s[a:b] of a byte string (0-based, silently truncated)
Slice(s, a, b) ==
    LET lo == Min2(a, Len(s))
        hi == Min2(b, Len(s))
    IN IF hi <= lo THEN <<>> ELSE SubSeq(s, lo + 1, hi)

\* b"".join([...]) of two byte strings
Join(a, b) == a \o b

\* ---------------------------------------------------------------- header
\* build_plain_header / validate_header as defined in
\* lsb_plus_engine/lsb_utils/header.py, the header module of the repository
\* (lsbpp.py imports the same names from lsb_plus.engine.util.header)
MAGIC == <<83, 84, 71>>
MAGIC_LEN == Len(MAGIC)
LEN_LEN == 4
HEADER_LEN == MAGIC_LEN + LEN_LEN

Ok(v) == [ok |-> TRUE, val |-> v]
Err(e) == [ok |-> FALSE, err |-> e]

\* Python integers are unbounded.  A length is held as two limbs <<hi, lo>>
\* with value hi * 2^16 + lo and 0 <= lo < 2^16: it is negative exactly when
\* hi < 0 and exceeds 2^32 - 1 exactly when hi > 65535.
Limbs(v) == << v \div 65536, v % 65536 >>

\* a length as a machine integer for comparison with the lengths of the
\* model's streams; 2^31 and more is represented by 2^31 - 1, which exceeds
\* every stream length of the model
Narrow(n) ==
    IF n[1] >= 32768 THEN 2147483647 ELSE n[1] * 65536 + n[2]

\* payload length is kept in 4 unsigned bytes: 0 .. 2^32 - 1
MAX_PAYLOAD_LEN == << 65535, 65535 >>

\* payload_length.to_bytes(LEN_LEN, "big", signed=False)
ToBytes4LittleEndian(n) ==
    << n[2] % 256, n[2] \div 256, n[1] % 256, n[1] \div 256 >>
ToBytes4(n) ==
    << n[1] \div 256, n[1] % 256, n[2] \div 256, n[2] % 256 >>

\* build_plain_header: b"STG" + uint32 big-endian length, or an error for a
\* length outside 0 .. MAX_PAYLOAD_LEN
BuildPlainHeader(payload_length) ==
    IF payload_length[1] < 0 THEN Err("negative")
    ELSE IF payload_length[1] > MAX_PAYLOAD_LEN[1] THEN Err("too_large")
    ELSE Ok(Join(MAGIC, ToBytes4(payload_length)))

\* int.from_bytes(length_bytes, "big", signed=False) of a 4-byte field
FromBytes4(b) == << b[1] * 256 + b[2], b[3] * 256 + b[4] >>

\* validate_header: the length field of a 7-byte header, or an error
ValidateHeader(plain_header) ==
    IF Len(plain_header) # HEADER_LEN THEN Err("header_length")
    ELSE IF Slice(plain_header, 0, MAGIC_LEN) # MAGIC THEN Err("header_magic")
    ELSE Ok(FromBytes4(Slice(plain_header, MAGIC_LEN, HEADER_LEN)))

\* ------------------------------------------------- cryptographic services
\* The primitives are external libraries.  Each is modelled by a small
\* function with the property the engine relies on: decryption inverts
\* encryption under the same key, and the tag binds key, nonce and ciphertext.
HashMod == 2^16 - 15

\* a digest of data with initial value init: every byte counts, with a
\* weight that depends on its position
HashFrom(data, init) ==
    LET n == Len(data)
        terms == Table([k \in 1 .. n |->
                     (data[k] + 1) * (((k * 131 + init * 17) % 251) + 1)])
    IN (init + 31 * n + SumRange(terms, 1, n)) % HashMod

\* hashlib.sha256(data).digest(): 32 bytes that depend on all of data
Sha256(data) ==
    Table([k \in 1 .. 32 |-> HashFrom(data, 7 + k) % 256])

\* os.urandom(n) when the operating system's entropy source is in state e
Urandom(e, n) == Table([k \in 1 .. n |-> (e * 37 + k * 11) % 256])

ARGON2_SALT_LEN == 16
ARGON2_HASH_LEN == 32
AESGCM_NONCE_LEN == 12

\* generate_salt(length)
GenerateSalt(e, length) == Urandom(e, length)

\* derive_key_argon2id(password, salt): a 32-byte key
DeriveKeyArgon2id(password, salt) ==
    LET h == HashFrom(Join(password, salt), 11)
    IN Table([k \in 1 .. ARGON2_HASH_LEN |-> (h + (h \div 256) + 5 * k) % 256])

\* keystream byte k of AES-GCM under (key, nonce)
KeyStream(key, nonce, k) ==
    (HashFrom(key, 3) + HashFrom(nonce, 5) + 7 * k) % 256

\* GCM tag of a ciphertext body under (key, nonce)
GcmTag(key, nonce, body) ==
    LET weighted == Table([k \in 1 .. Len(body) |-> body[k] * (2 * k + 1)])
        t == HashFrom(key, 17) + HashFrom(nonce, 19) + Len(body)
             + SumRange(weighted, 1, Len(body))
    IN Table([k \in 1 .. TagLen |-> (t + 29 * k) % 256])

\* AESGCM(key).encrypt(nonce, plaintext, None): ciphertext with tag
GcmSeal(key, nonce, plaintext) ==
    LET body == Table([k \in 1 .. Len(plaintext) |->
                          (plaintext[k] + KeyStream(key, nonce, k)) % 256])
    IN Join(body, GcmTag(key, nonce, body))

\* aes_gcm_encrypt(key, plaintext): fresh nonce and ciphertext with tag
AesGcmEncrypt(e, key, plaintext) ==
    LET nonce == Urandom(e, AESGCM_NONCE_LEN)
    IN [nonce |-> nonce, ct |-> GcmSeal(key, nonce, plaintext)]

\* aes_gcm_decrypt(key, nonce, ciphertext): plaintext, or InvalidTag
AesGcmDecryptUnchecked(key, nonce, ciphertext) ==
    LET n == Max2(Len(ciphertext) - TagLen, 0)
    IN Ok(Table([k \in 1 .. n |->
                    (ciphertext[k] + 256 - KeyStream(key, nonce, k)) % 256]))
AesGcmDecrypt(key, nonce, ciphertext) ==
    IF Len(ciphertext) < TagLen \/ Len(nonce) # AESGCM_NONCE_LEN
    THEN Err("crypto")
    ELSE LET n == Len(ciphertext) - TagLen
             body == Slice(ciphertext, 0, n)
             tag == Slice(ciphertext, n, Len(ciphertext))
         IN IF tag # GcmTag(key, nonce, body) THEN Err("crypto")
            ELSE Ok(Table([k \in 1 .. n |->
                              (body[k] + 256 - KeyStream(key, nonce, k)) % 256]))

\* RSA key pairs are numbered; the PEM file of pair k holds key k
KeyPairs == {1, 2}

\* public_key.public_bytes(DER, SubjectPublicKeyInfo)
PublicDer(k) == <<48, 130, 1, 34, 17 * k, 3 * k + 1>>

HexDigit(n) == IF n < 10 THEN 48 + n ELSE 87 + n

\* hashlib.sha256(der).hexdigest()
HexDigest(data) ==
    LET d == Sha256(data)
    IN Table([k \in 1 .. 64 |->
                 IF k % 2 = 1 THEN HexDigit(d[(k + 1) \div 2] \div 16)
                              ELSE HexDigit(d[k \div 2] % 16)])

\* fingerprint_public_key: the first 32 hex characters of SHA-256(DER)
FingerprintPublicKey(k) == Slice(HexDigest(PublicDer(k)), 0, 32)

\* rsa_encrypt_key(public key k, the symmetric key drawn in entropy state e):
\* EkLen bytes, the wrapped key followed by the OAEP padding check
RsaEncryptKey(k, e) ==
    Table([j \in 1 .. EkLen |->
              IF j = 1 THEN (e + 101 * k) % 256 ELSE (53 * k + j) % 256])

\* rsa_decrypt_key(private key k, ek): the symmetric key, or an error when the
\* padding check fails (wrong key or corrupted data)
RsaDecryptKey(k, ek) ==
    IF Len(ek) # EkLen \/ \E j \in 2 .. EkLen : ek[j] # (53 * k + j) % 256
    THEN Err("crypto")
    ELSE Ok(Urandom((ek[1] + 256 - ((101 * k) % 256)) % 256, 32))

\* ------------------------------------------------------------ pixel order
\* np.argsort(flat_entropy): indices by ascending entropy.  The default sort
\* kind is not stable, so the order among equal entropies is whatever the
\* build's sort produces; tie names that outcome ("asc": ascending index,
\* "desc": descending index).
Argsort(flat_entropy, tie) ==
    LET n == Cardinality(DOMAIN flat_entropy)
        key(f) == flat_entropy[f] * n + (IF tie = "asc" THEN f ELSE n - 1 - f)
        keys == SortSeq([k \in 1 .. n |-> key(k - 1)], LAMBDA a, b : a < b)
    IN Table([r \in 0 .. n - 1 |->
                 LET t == keys[r + 1] % n
                 IN IF tie = "asc" THEN t ELSE n - 1 - t])

\* int.from_bytes(sha256(seed)[:8], "big"), reduced to the generator's
\* state space
RngModulus == 2^16 - 15

RECURSIVE FromBytesMod(_, _, _)
FromBytesMod(b, k, acc) ==
    IF k > Len(b) THEN acc
    ELSE FromBytesMod(b, k + 1, (acc * 256 + b[k]) % RngModulus)

SeedInt(seed) == FromBytesMod(Slice(Sha256(seed), 0, 8), 1, 0)

\* one step of the bit generator behind np.random.default_rng (PCG64)
RngNext(x) == (17364 * x + 1) % RngModulus

\* one step of the generator behind random.Random (Mersenne Twister)
RandomNext(x) == (75 * x + 74) % (2^16 + 1)

\* the next state of the generator an rng object wraps
Draw(gen, x) == IF gen = "pcg64" THEN RngNext(x) ELSE RandomNext(x)

\* one step of rng.shuffle: j = a draw below i + 1; swap x[i], x[j]
ShuffleStepNoSwap(st, i) ==
    LET x == Draw(st.gen, st.x)
        j == x % (i + 1)
    IN [st EXCEPT !.x = x, !.arr = [st.arr EXCEPT ![i] = st.arr[j]]]
ShuffleStep(st, i) ==
    LET x == Draw(st.gen, st.x)
        j == x % (i + 1)
    IN [st EXCEPT !.x = x,
                  !.arr = [st.arr EXCEPT ![i] = st.arr[j], ![j] = st.arr[i]]]

RECURSIVE ShuffleRange(_, _, _)
\* the steps i = hi, hi - 1, ..., lo of the shuffle, in that order
ShuffleRange(st, hi, lo) ==
    IF hi < lo THEN st
    ELSE IF hi = lo THEN ShuffleStep(st, hi)
    ELSE LET mid == (hi + lo) \div 2
             upper == ShuffleRange(st, hi, mid + 1)
         IN IF upper.x >= 0 THEN ShuffleRange(upper, mid, lo) ELSE upper

\* rng.shuffle(x): Fisher-Yates from the last position down to 1, on the
\* generator gen seeded with seed_int
RngShuffle(gen, seed_int, arr) ==
    ShuffleRange([gen |-> gen, x |-> seed_int, arr |-> arr],
                 Cardinality(DOMAIN arr) - 1, 1).arr

\* build_pixel_order (lsb_plus/engine): argsort(flat_entropy)[::-1], then
\* shuffled by the numpy generator seeded from the seed string
SortedIdx(entropy_map, tie) ==
    LET n == Cardinality(DOMAIN entropy_map)
        asc == Argsort(entropy_map, tie)
    IN Table([r \in 0 .. n - 1 |-> asc[n - 1 - r]])

BuildPixelOrder(entropy_map, seed, tie) ==
    RngShuffle("pcg64", SeedInt(seed), SortedIdx(entropy_map, tie))

\* rng_from_seed: random.Random seeded with the first 8 bytes of the digest
RngFromSeed(seed) == SeedInt(seed)

\* build_pixel_order (lsb_plus_engine/embedder): argsort(-flat_entropy),
\* then shuffled by random.Random seeded from the seed string
SortedList(entropy_map, tie) ==
    LET negated == Table([f \in DOMAIN entropy_map |-> 0 - entropy_map[f]])
    IN Argsort(negated, tie)

BuildPixelOrderEngine(entropy_map, seed, tie) ==
    RngShuffle("mt19937", RngFromSeed(seed), SortedList(entropy_map, tie))

\* --------------------------------------------------------------- envelope
MODE_NONE == 0
MODE_SYMMETRIC == 1
MODE_ASYMMETRIC == 2
SALT_LEN == 16
NONCE_LEN == 12

\* "default_seed" and "asym:" as text
DefaultSeed == <<100, 101, 102, 97, 117, 108, 116, 95, 115, 101, 101, 100>>
AsymPrefix == <<97, 115, 121, 109, 58>>

\* len(ek).to_bytes(2, "big")
ToBytes2(n) == << (n \div 256) % 256, n % 256 >>

\* int.from_bytes(b, "big") of at most two bytes
FromBytes2(b) ==
    IF Len(b) = 0 THEN 0 ELSE IF Len(b) = 1 THEN b[1] ELSE b[1] * 256 + b[2]

\* LSBPP.embed, mode none: [0x00][header][payload]
BuildPlainStream(payload_bytes) ==
    Join(<<MODE_NONE>>,
         Join(BuildPlainHeader(Limbs(Len(payload_bytes))).val, payload_bytes))

\* LSBPP._build_symmetric_stream: [0x01][header][salt][nonce][ciphertext]
BuildSymmetricStreamNonceFirst(e, password, payload_bytes) ==
    LET salt == GenerateSalt(e, ARGON2_SALT_LEN)
        enc == AesGcmEncrypt(e + 1, DeriveKeyArgon2id(password, salt),
                             payload_bytes)
    IN Join(<<MODE_SYMMETRIC>>,
            Join(BuildPlainHeader(Limbs(Len(enc.ct))).val,
                 Join(enc.nonce, Join(salt, enc.ct))))
BuildSymmetricStream(e, password, payload_bytes) ==
    LET salt == GenerateSalt(e, ARGON2_SALT_LEN)
        key == DeriveKeyArgon2id(password, salt)
        enc == AesGcmEncrypt(e + 1, key, payload_bytes)
        header == BuildPlainHeader(Limbs(Len(enc.ct))).val
    IN Join(<<MODE_SYMMETRIC>>, Join(header, Join(salt, Join(enc.nonce, enc.ct))))

\* LSBPP._decrypt_symmetric_stream
DecryptSymmetricStream(stream_bytes, password) ==
    LET header == Slice(stream_bytes, 1, 1 + HEADER_LEN)
        c_len == ValidateHeader(header)
        i1 == 1 + HEADER_LEN
        salt == Slice(stream_bytes, i1, i1 + SALT_LEN)
        i2 == i1 + SALT_LEN
        nonce == Slice(stream_bytes, i2, i2 + NONCE_LEN)
        idx == i2 + NONCE_LEN
    IN IF ~c_len.ok THEN c_len
       ELSE IF Len(stream_bytes) - idx < Narrow(c_len.val) THEN Err("truncated")
       ELSE AesGcmDecrypt(DeriveKeyArgon2id(password, salt), nonce,
                          Slice(stream_bytes, idx, idx + Narrow(c_len.val)))

\* LSBPP._build_asymmetric_stream:
\* [0x02][header][ek_len(2)][ek][nonce][ciphertext], and the fingerprint
BuildAsymmetricStream(e, k, payload_bytes) ==
    LET sym_key == GenerateSalt(e, 32)
        ek == RsaEncryptKey(k, e)
        enc == AesGcmEncrypt(e + 1, sym_key, payload_bytes)
        header == BuildPlainHeader(Limbs(Len(enc.ct))).val
    IN [stream |-> Join(<<MODE_ASYMMETRIC>>,
                        Join(header, Join(ToBytes2(Len(ek)),
                                          Join(ek, Join(enc.nonce, enc.ct))))),
        fingerprint |-> FingerprintPublicKey(k)]

\* LSBPP._decrypt_asymmetric_stream
DecryptAsymmetricStream(stream_bytes, k) ==
    LET header == Slice(stream_bytes, 1, 1 + HEADER_LEN)
        c_len == ValidateHeader(header)
        i1 == 1 + HEADER_LEN
        ek_len == FromBytes2(Slice(stream_bytes, i1, i1 + 2))
        i2 == i1 + 2
        ek == Slice(stream_bytes, i2, i2 + ek_len)
        i3 == i2 + ek_len
        nonce == Slice(stream_bytes, i3, i3 + NONCE_LEN)
        idx == i3 + NONCE_LEN
        sym_key == RsaDecryptKey(k, ek)
    IN IF ~c_len.ok THEN c_len
       ELSE IF Len(stream_bytes) - idx < Narrow(c_len.val) THEN Err("truncated")
       ELSE IF ~sym_key.ok THEN sym_key
       ELSE AesGcmDecrypt(sym_key.val, nonce,
                          Slice(stream_bytes, idx, idx + Narrow(c_len.val)))

\* LSBPP._decrypt_plain_stream
DecryptPlainStreamToEnd(stream_bytes) ==
    LET p_len == ValidateHeader(Slice(stream_bytes, 1, 1 + HEADER_LEN))
    IN IF ~p_len.ok THEN p_len
       ELSE Ok(Slice(stream_bytes, 1 + HEADER_LEN, Len(stream_bytes)))
DecryptPlainStream(stream_bytes) ==
    LET header == Slice(stream_bytes, 1, 1 + HEADER_LEN)
        p_len == ValidateHeader(header)
        idx == 1 + HEADER_LEN
    IN IF ~p_len.ok THEN p_len
       ELSE Ok(Slice(stream_bytes, idx,
                     IF Narrow(p_len.val) > Len(stream_bytes) THEN Len(stream_bytes)
                     ELSE idx + Narrow(p_len.val)))

\* ------------------------------------------------------- embed / extract
\* _bitwise_lsb: val with its last bit replaced by bit
BitwiseLsbXor(val, bit) == (val + (bit % 2)) % 256
BitwiseLsb(val, bit) == ClearLsb(val) + (bit % 2)

\* channels = (2, 1, 0): Blue, Green, Red
ChannelsRedFirst == <<0, 1, 2>>
Channels == <<2, 1, 0>>

RECURSIVE EmbedChannels(_, _, _, _, _)
\* the channel loop of embed_bits_low_level for one pixel, from the c-th
\* entry of channels on: the pixel and the bit cursor afterwards
EmbedChannels(pixel, cap, bits_arr, bit_pos, c) ==
    IF c > Len(Channels) \/ bit_pos >= Len(bits_arr) \/ cap <= 0
    THEN [pixel |-> pixel, bit_pos |-> bit_pos]
    ELSE LET ch == Channels[c] + 1
             new_v == BitwiseLsb(pixel[ch], bits_arr[bit_pos + 1])
         IN EmbedChannels([pixel EXCEPT ![ch] = new_v], cap - 1, bits_arr,
                          bit_pos + 1, c + 1)

\* the bits extract_bits_low_level appends for one pixel
ExtractPixelRedFirst(pixel, cap) ==
    [t \in 1 .. Min2(Max2(cap, 0), Len(Channels)) |-> pixel[t] % 2]
ExtractPixel(pixel, cap) ==
    [t \in 1 .. Min2(Max2(cap, 0), Len(Channels)) |-> pixel[Channels[t] + 1] % 2]

RECURSIVE ExtractRange(_, _, _, _, _)
\* the bits appended for positions lo..hi of the pixel order
ExtractRange(px, order_, capacity_flat, lo, hi) ==
    IF lo > hi THEN <<>>
    ELSE IF lo = hi
    THEN ExtractPixel(px[order_[lo]], capacity_flat[order_[lo]])
    ELSE LET mid == (lo + hi) \div 2
         IN ExtractRange(px, order_, capacity_flat, lo, mid)
            \o ExtractRange(px, order_, capacity_flat, mid + 1, hi)

\* extract_bits_low_level
ExtractBitsLowLevel(px, order_, capacity_flat) ==
    ExtractRange(px, order_, capacity_flat, 0, NumPixels - 1)

\* bytes.decode("utf-8") succeeds: every lead byte is followed by its
\* continuation bytes, and every continuation byte belongs to a lead byte
Utf8Valid(b) ==
    LET n == Len(b)
        IsCont(k) == k >= 1 /\ k <= n /\ b[k] >= 128 /\ b[k] <= 191
        LeadLen(v) == IF v >= 194 /\ v <= 223 THEN 2
                      ELSE IF v >= 224 /\ v <= 239 THEN 3
                      ELSE IF v >= 240 /\ v <= 244 THEN 4
                      ELSE 0
        SecondOk(v, w) ==
            /\ (v = 224 => w >= 160)
            /\ (v = 237 => w <= 159)
            /\ (v = 240 => w >= 144)
            /\ (v = 244 => w <= 143)
    IN \A k \in 1 .. n :
         \/ b[k] < 128
         \/ /\ IsCont(k)
            /\ \E j \in 1 .. 3 :
                 /\ k - j >= 1
                 /\ LeadLen(b[k - j]) > j
                 /\ \A t \in 1 .. j - 1 : IsCont(k - t)
         \/ /\ LeadLen(b[k]) > 0
            /\ \A t \in 1 .. LeadLen(b[k]) - 1 : IsCont(k + t)
            /\ SecondOk(b[k], b[k + 1])

\* --------------------------------------------------------------- inputs
\* cover images: vertical stripes with a perturbation (high capacity), a
\* textured image (mixed capacity), a diagonal edge (low capacity)
CoverPixel(c, f) ==
    LET y == f \div W
        x == f % W
    IN CASE c = 1 ->
              LET v == 30 + 190 * ((x \div 2) % 2) + ((5 * x + 3 * y) % 7) * 5
              IN <<v, (v + 3) % 256, (v + 9) % 256>>
         [] c = 2 ->
              LET v == (37 * y * y + 91 * x + 53 * x * y + 11 * x * x * x) % 256
              IN <<v, (v * 7 + 3) % 256, (v * 13 + y) % 256>>
         [] OTHER ->
              LET v == 128 + (IF x > y THEN 40 ELSE 0)
              IN <<v, v, v>>

Covers == 1 .. 3

\* images in which every pixel has the same gray value; the file is named
\* by that value
GrayLevels == {127, 128}
UniformImage(v) == Table([f \in Pixels |-> <<v, v, v>>])
CoverImage(c) == Table([f \in Pixels |-> CoverPixel(c, f)])
\* the pixel arrays the cover files load to, by path
CoverImages == Table([c \in Covers |-> CoverImage(c)])

\* payload texts (as UTF-8 bytes) of every length up to MaxPayload
PayloadOf(n) == [k \in 1 .. n |-> 103 + k]
Payloads == {PayloadOf(n) : n \in 0 .. MaxPayload}

\* passwords, the empty one included
Passwords == {<<>>, <<97>>, <<98>>}

\* what the caller passes as encrypt_mode / password / key path
Credentials ==
    {[mode |-> "none", password |-> <<>>, key |-> 0]}
    \cup {[mode |-> "password", password |-> p, key |-> 0] : p \in Passwords}
    \cup {[mode |-> "public", password |-> <<>>, key |-> k] : k \in KeyPairs}

\* states of the operating system's entropy source
Entropy == {3, 200}

\* the outcomes of the unstable sort on equal keys
TieOrders == {"asc", "desc"}

\* ---------------------------------------------------------------- state
VARIABLES
    pc,            \* position in the embed / extract calls
    tie,           \* how this build's argsort orders equal entropies
    cover_path,    \* the cover file given to embed
    mem,           \* pixel buffers by name: "cover", and "copy" once made
    rgb,           \* name of the buffer embed_bits_low_level writes into
    entropy_map,   \* embed: entropy map of the cover
    capacity_map,  \* embed: capacity map of the cover
    cred,          \* embed: encrypt_mode, password, key
    payload,       \* embed: payload_text as UTF-8 bytes
    stream,        \* embed: the envelope stream
    order,         \* embed: pixel order
    bits,          \* embed: bits of the stream
    bit_pos,       \* embed loop: bit cursor
    i,             \* embed loop: position in the pixel order
    stego,         \* name of the buffer embed returned, "none" if none
    progress,      \* percents passed to status_callback in the current call
    x,             \* extract: its credential, maps, order and stream
    result,        \* extract: what the call returned or raised
    fn_in,         \* arguments of a function applied on its own
    fn_out,        \* what that function returned
    block_done,    \* embed_in_lsb: blocks marked unsafe
    pending_changes, \* embed_in_lsb: per block, the pixels changed and
                   \* their old values
    evaluated      \* embed_in_lsb: the bit cursor at the latest evaluation
                   \* of adjust_capacity_fn and of block_safety_checker

vars == <<pc, tie, cover_path, mem, rgb, entropy_map, capacity_map, cred,
          payload, stream, order, bits, bit_pos, i, stego, progress, x, result,
          fn_in, fn_out, block_done, pending_changes, evaluated>>

\* the state of embed_in_lsb, which the other calls leave alone
engineVars == <<block_done, pending_changes, evaluated>>

NeverEvaluated == [adjust_at |-> -1, safety_at |-> -1]

EngineIdle ==
    /\ block_done = <<>>
    /\ pending_changes = <<>>
    /\ evaluated = NeverEvaluated

NoCred == [mode |-> "", password |-> <<>>, key |-> 0]
NoExtract == [cred |-> NoCred, entropy |-> <<>>, capacity |-> <<>>,
              order |-> <<>>, bits |-> <<>>, stream |-> <<>>]

\* cover.copy(): the buffer LSBPP.embed hands to embed_bits_low_level
EmbedTargetAliased == "cover"
EmbedTarget == "copy"

\* the seed of the pixel order for a credential (embed side)
EmbedSeed(c) ==
    IF c.mode = "password" THEN c.password
    ELSE IF c.mode = "public" THEN Join(AsymPrefix, FingerprintPublicKey(c.key))
    ELSE DefaultSeed

\* the seed of the pixel order for a credential (extract side): the
\* fingerprint comes from the public key derived from the private key
ExtractSeedDefault(c) == DefaultSeed
ExtractSeed(c) ==
    IF c.mode = "password" THEN c.password
    ELSE IF c.mode = "public" THEN Join(AsymPrefix, FingerprintPublicKey(c.key))
    ELSE DefaultSeed

Init ==
    /\ pc = "embed_load"
    /\ tie \in TieOrders
    /\ cover_path \in Covers
    /\ mem = [cover |-> CoverImage(cover_path)]
    /\ rgb = "none"
    /\ entropy_map = <<>>
    /\ capacity_map = <<>>
    /\ cred = NoCred
    /\ payload = <<>>
    /\ stream = <<>>
    /\ order = <<>>
    /\ bits = <<>>
    /\ bit_pos = 0
    /\ i = 0
    /\ stego = "none"
    /\ progress = <<>>
    /\ x = NoExtract
    /\ result = <<>>
    /\ fn_in = <<>>
    /\ fn_out = <<>>
    /\ EngineIdle

\* LSBPP.embed, steps 1-2: load the cover, analyse texture and capacity
EmbedAnalyze ==
    /\ pc = "embed_load"
    /\ LET tf == ComputeTextureFeatures(mem.cover)
       IN /\ entropy_map' = tf.entropy
          /\ capacity_map' = ComputeCapacity(tf.surface)
    /\ progress' = <<5, 15, 20>>
    /\ pc' = "embed_analyzed"
    /\ UNCHANGED engineVars
    /\ UNCHANGED <<fn_in, fn_out, tie, cover_path, mem, rgb, cred, payload, stream, order,
                   bits, bit_pos, i, stego, x, result>>

\* LSBPP.embed, steps 3-6: build the stream and the seed, the pixel order,
\* the bitstream, and copy the cover for the embedding loop
EmbedBuildStream ==
    /\ pc = "embed_analyzed"
    /\ \E c \in Credentials, p \in Payloads, e \in Entropy :
         /\ cred' = c
         /\ payload' = p
         /\ IF c.mode = "password" /\ c.password = <<>>
            THEN /\ pc' = "embed_rejected"
                 /\ progress' = progress \o <<30>>
                 /\ UNCHANGED <<stream, order, bits, mem, rgb>>
            ELSE /\ stream' = (IF c.mode = "password"
                               THEN BuildSymmetricStream(e, c.password, p)
                               ELSE IF c.mode = "public"
                               THEN BuildAsymmetricStream(e, c.key, p).stream
                               ELSE BuildPlainStream(p))
                 /\ order' = BuildPixelOrder(entropy_map, EmbedSeed(c), tie)
                 /\ bits' = BytesToBits(stream')
                 /\ mem' = [cover |-> mem.cover, copy |-> mem.cover]
                 /\ rgb' = EmbedTarget
                 /\ progress' = progress \o <<30, 45, 50, 60, 70>>
                 /\ pc' = "embed_loop"
    /\ UNCHANGED engineVars
    /\ UNCHANGED <<fn_in, fn_out, tie, cover_path, entropy_map, capacity_map, bit_pos, i,
                   stego, x, result>>

\* embed_bits_low_level: the loop goes on while pixels remain in the order
\* and bits remain to embed
LoopStopsEarly(i_, num_pixels, bit_pos_, total_bits) ==
    i_ < num_pixels - 1 /\ bit_pos_ < total_bits
LoopContinues(i_, num_pixels, bit_pos_, total_bits) ==
    i_ < num_pixels /\ bit_pos_ < total_bits

\* embed_bits_low_level, final verification: bits are left over
NoFinalVerification(bit_pos_, total_bits) == FALSE
FinalVerification(bit_pos_, total_bits) == bit_pos_ < total_bits

\* embed_bits_low_level: one iteration of the loop over the pixel order
EmbedLoopStep ==
    /\ pc = "embed_loop"
    /\ LoopContinues(i, NumPixels, bit_pos, Len(bits))
    /\ LET flat_idx == order[i]
           cap == capacity_map[flat_idx]
           done == EmbedChannels(mem[rgb][flat_idx], cap, bits, bit_pos, 1)
       IN IF cap <= 0
          THEN UNCHANGED <<mem, bit_pos>>
          ELSE /\ mem' = [mem EXCEPT ![rgb][flat_idx] = done.pixel]
               /\ bit_pos' = done.bit_pos
    /\ i' = i + 1
    /\ UNCHANGED engineVars
    /\ UNCHANGED <<pc, fn_in, fn_out, tie, cover_path, rgb, entropy_map, capacity_map, cred,
                   payload, stream, order, bits, stego, progress, x, result>>

\* embed_bits_low_level: the loop ends and the final verification either
\* raises the capacity error or returns the buffer; LSBPP.embed then
\* computes the metrics and returns the stego image
EmbedFinish ==
    /\ pc = "embed_loop"
    /\ ~LoopContinues(i, NumPixels, bit_pos, Len(bits))
    /\ IF FinalVerification(bit_pos, Len(bits))
       THEN /\ pc' = "embed_error"
            /\ UNCHANGED <<stego, progress>>
       ELSE /\ pc' = "embed_done"
            /\ stego' = rgb
            /\ progress' = progress \o <<95, 100>>
    /\ UNCHANGED engineVars
    /\ UNCHANGED <<fn_in, fn_out, tie, cover_path, mem, rgb, entropy_map, capacity_map, cred,
                   payload, stream, order, bits, bit_pos, i, x, result>>

\* LSBPP.extract, steps 1-2: load the stego image and recompute the maps
ExtractAnalyze ==
    /\ pc = "embed_done"
    /\ LET tf == ComputeTextureFeatures(mem[stego])
       IN x' = [x EXCEPT !.entropy = tf.entropy,
                         !.capacity = ComputeCapacity(tf.surface)]
    /\ progress' = <<5, 15>>
    /\ pc' = "extract_analyzed"
    /\ UNCHANGED engineVars
    /\ UNCHANGED <<fn_in, fn_out, tie, cover_path, mem, rgb, entropy_map, capacity_map, cred,
                   payload, stream, order, bits, bit_pos, i, stego, result>>

\* LSBPP.extract, step 7: dispatch on the mode byte and decrypt
DecryptStream(stream_bytes, c) ==
    LET mode_byte == stream_bytes[1]
        out == IF mode_byte = MODE_SYMMETRIC
               THEN IF c.mode # "password" THEN Err("mode_mismatch")
                    ELSE DecryptSymmetricStream(stream_bytes, c.password)
               ELSE IF mode_byte = MODE_ASYMMETRIC
               THEN IF c.mode # "public" THEN Err("mode_mismatch")
                    ELSE DecryptAsymmetricStream(stream_bytes, c.key)
               ELSE IF mode_byte = MODE_NONE
               THEN DecryptPlainStream(stream_bytes)
               ELSE Err("unknown_mode")
    IN IF out.ok /\ ~Utf8Valid(out.val) THEN Err("decode") ELSE out

\* LSBPP.extract, steps 3-7: seed, pixel order, raw bits, bytes, decryption
ExtractRun ==
    /\ pc = "extract_analyzed"
    /\ \E c \in Credentials :
         IF c.mode = "password" /\ c.password = <<>>
         THEN /\ x' = [x EXCEPT !.cred = c]
              /\ result' = Err("value_error")
              /\ progress' = progress \o <<30>>
         ELSE LET order_ == BuildPixelOrder(x.entropy, ExtractSeed(c), tie)
                  bits_ == ExtractBitsLowLevel(mem[stego], order_, x.capacity)
                  stream_bytes == BitsToBytes(bits_)
              IN /\ x' = [x EXCEPT !.cred = c, !.order = order_,
                                   !.bits = bits_, !.stream = stream_bytes]
                 /\ IF Len(stream_bytes) = 0
                    THEN /\ result' = Err("empty_stream")
                         /\ progress' = progress \o <<30, 50, 70>>
                    ELSE /\ result' = DecryptStream(stream_bytes, c)
                         /\ progress' = progress \o <<30, 50, 70, 80>>
                                        \o (IF result'.ok THEN <<100>> ELSE <<>>)
    /\ pc' = "extract_done"
    /\ UNCHANGED engineVars
    /\ UNCHANGED <<fn_in, fn_out, tie, cover_path, mem, rgb, entropy_map, capacity_map, cred,
                   payload, stream, order, bits, bit_pos, i, stego>>

Next ==
    \/ EmbedAnalyze
    \/ EmbedBuildStream
    \/ EmbedLoopStep
    \/ EmbedFinish
    \/ ExtractAnalyze
    \/ ExtractRun

Spec == Init /\ [][Next]_vars

\* LSBPP.embed called on a uniform image
UniformInit ==
    /\ pc = "embed_load"
    /\ tie \in TieOrders
    /\ cover_path \in GrayLevels
    /\ mem = [cover |-> UniformImage(cover_path)]
    /\ rgb = "none"
    /\ entropy_map = <<>>
    /\ capacity_map = <<>>
    /\ cred = NoCred
    /\ payload = <<>>
    /\ stream = <<>>
    /\ order = <<>>
    /\ bits = <<>>
    /\ bit_pos = 0
    /\ i = 0
    /\ stego = "none"
    /\ progress = <<>>
    /\ x = NoExtract
    /\ result = <<>>
    /\ fn_in = <<>>
    /\ fn_out = <<>>
    /\ EngineIdle

UniformNext ==
    \/ EmbedAnalyze
    \/ EmbedBuildStream
    \/ EmbedLoopStep
    \/ EmbedFinish

SpecUniform == UniformInit /\ [][UniformNext]_vars

\* ------------------------------------------- embed_in_lsb (lsb_plus_engine)
\* LSB_Plus.embed: 8x8 blocks, numbered row by row
BlockCols == (W + 7) \div 8
BlockRows == (H + 7) \div 8
Blocks == 0 .. (BlockRows * BlockCols - 1)
BlockMap(idx) == ((idx \div W) \div 8) * BlockCols + ((idx % W) \div 8)

\* last_pos_per_block: the last position of the order that lies in a block
LastPosPerBlock(order_, block_id) ==
    LET positions == {pos \in 0 .. NumPixels - 1 :
                         BlockMap(order_[pos]) = block_id}
    IN IF positions = {} THEN -1
       ELSE CHOOSE pos \in positions : \A q \in positions : q <= pos

\* adjust_capacity_fn as passed by the caller: the requested bits, limited
\* to 1 (very flat), to 2 (moderately flat) or not at all
AdjustLimits == {1, 2, 3}
AdjustCapacity(limit, requested_bits) ==
    IF requested_bits <= 0 THEN 0 ELSE Min2(requested_bits, limit)

\* block_safety_checker as passed by the caller: one that accepts every
\* block, one that rejects every block, one that rejects block 0
Checkers == {"safe", "unsafe", "unsafe_block_0"}
BlockSafetyChecker(checker, block_id) ==
    \/ checker = "safe"
    \/ checker = "unsafe_block_0" /\ block_id # 0

\* requested capacity maps, pixel orders and bit lists given to embed_in_lsb
RequestedCapacities ==
    {Table([f \in Pixels |-> 1]), Table([f \in Pixels |-> (f + (f \div W)) % 4])}
SyntheticEntropy == Table([f \in Pixels |-> (f * 37) % 11])
EngineOrders ==
    {Table([f \in Pixels |-> f]),
     BuildPixelOrderEngine(SyntheticEntropy, <<97>>, "asc")}
EngineBits ==
    {BytesToBits(<<MODE_SYMMETRIC, 83, 84>>),
     BytesToBits(BuildSymmetricStream(3, <<97>>, PayloadOf(1)))}

InLsbInit ==
    /\ pc = "in_lsb_loop"
    /\ tie = "asc"
    /\ cover_path \in {1, 2}
    /\ mem = [cover |-> CoverImage(cover_path), copy |-> CoverImage(cover_path)]
    /\ rgb = "copy"
    /\ entropy_map = <<>>
    /\ capacity_map \in RequestedCapacities
    /\ cred = NoCred
    /\ payload = <<>>
    /\ stream = <<>>
    /\ order \in EngineOrders
    /\ bits \in EngineBits
    /\ bit_pos = 0
    /\ i = 0
    /\ stego = "none"
    /\ progress = <<>>
    /\ x = NoExtract
    /\ result = <<>>
    /\ fn_in \in [adjust : AdjustLimits, checker : Checkers]
    /\ fn_out = <<>>
    /\ block_done = [b \in Blocks |-> FALSE]
    /\ pending_changes = [b \in Blocks |-> <<>>]
    /\ evaluated = NeverEvaluated

\* the pixels of a block's pending changes set back to their old values
RollbackNothing(flat, changes) == flat
Rollback(flat, changes) ==
    [f \in Pixels |->
        IF \E k \in 1 .. Len(changes) : changes[k].idx = f
        THEN (CHOOSE ch \in {changes[k] : k \in 1 .. Len(changes)} :
                  ch.idx = f).old_pixel
        ELSE flat[f]]

\* embed_in_lsb: one pass of the loop over the pixel order
InLsbStep ==
    /\ pc = "in_lsb_loop"
    /\ i < NumPixels
    /\ bit_pos < Len(bits)
    /\ LET flat_idx == order[i]
           block_id == BlockMap(flat_idx)
           requested_cap == capacity_map[flat_idx]
           cap == AdjustCapacity(fn_in.adjust, requested_cap)
       IN IF block_done[block_id] \/ requested_cap <= 0
          THEN UNCHANGED <<mem, bit_pos, block_done, pending_changes, evaluated>>
          ELSE IF cap <= 0
          THEN /\ evaluated' = [evaluated EXCEPT !.adjust_at = bit_pos]
               /\ UNCHANGED <<mem, bit_pos, block_done, pending_changes>>
          ELSE LET old_pixel == mem[rgb][flat_idx]
                   done == EmbedChannels(old_pixel, cap, bits, bit_pos, 1)
                   changed == done.pixel # old_pixel
                   written == [mem[rgb] EXCEPT ![flat_idx] = done.pixel]
                   pending == IF changed
                              THEN Append(pending_changes[block_id],
                                          [idx |-> flat_idx,
                                           old_pixel |-> old_pixel])
                              ELSE pending_changes[block_id]
                   block_ends == \/ i = LastPosPerBlock(order, block_id)
                                 \/ done.bit_pos >= Len(bits)
                   checked == block_ends /\ pending # <<>>
                   safe == BlockSafetyChecker(fn_in.checker, block_id)
               IN /\ bit_pos' = done.bit_pos
                  /\ mem' = [mem EXCEPT ![rgb] =
                                IF checked /\ ~safe
                                THEN Rollback(written, pending)
                                ELSE written]
                  /\ block_done' = IF checked /\ ~safe
                                   THEN [block_done EXCEPT ![block_id] = TRUE]
                                   ELSE block_done
                  /\ pending_changes' =
                        [pending_changes EXCEPT ![block_id] =
                            IF block_ends THEN <<>> ELSE pending]
                  /\ evaluated' =
                        [adjust_at |-> bit_pos,
                         safety_at |-> IF checked THEN done.bit_pos
                                       ELSE evaluated.safety_at]
    /\ i' = i + 1
    /\ UNCHANGED <<pc, fn_in, fn_out, tie, cover_path, rgb, entropy_map,
                   capacity_map, cred, payload, stream, order, bits, stego,
                   progress, x, result>>

\* embed_in_lsb: the loop ends; the capacity error, or the buffer returned
InLsbFinish ==
    /\ pc = "in_lsb_loop"
    /\ ~(i < NumPixels /\ bit_pos < Len(bits))
    /\ IF bit_pos < Len(bits)
       THEN /\ pc' = "in_lsb_error"
            /\ UNCHANGED stego
       ELSE /\ pc' = "in_lsb_done"
            /\ stego' = rgb
    /\ UNCHANGED <<fn_in, fn_out, tie, cover_path, mem, rgb, entropy_map,
                   capacity_map, cred, payload, stream, order, bits, bit_pos,
                   i, progress, x, result, block_done, pending_changes,
                   evaluated>>

InLsbNext ==
    \/ InLsbStep
    \/ InLsbFinish

SpecInLsb == InLsbInit /\ [][InLsbNext]_vars

\* the variables of the embed and extract calls, which these leave alone
callVars == <<cover_path, mem, rgb, entropy_map, capacity_map, cred, payload,
              stream, order, bits, bit_pos, i, stego, progress, x, result,
              block_done, pending_changes, evaluated>>

NoCall ==
    /\ cover_path = 0
    /\ mem = <<>>
    /\ rgb = "none"
    /\ entropy_map = <<>>
    /\ capacity_map = <<>>
    /\ cred = NoCred
    /\ payload = <<>>
    /\ stream = <<>>
    /\ order = <<>>
    /\ bits = <<>>
    /\ bit_pos = 0
    /\ i = 0
    /\ stego = "none"
    /\ progress = <<>>
    /\ x = NoExtract
    /\ result = <<>>
    /\ EngineIdle

\* ------------------------------------------------------- Locomotive.embed
\* the most cover images given to one call
MaxImages == 4

\* Locomotive._encrypt_data: [mode byte] and the data, encrypted or not
EncryptData(e, c, data) ==
    IF c.mode = "password"
    THEN LET salt == GenerateSalt(e, ARGON2_SALT_LEN)
             enc == AesGcmEncrypt(e + 1, DeriveKeyArgon2id(c.password, salt), data)
         IN Join(<<1>>, Join(salt, Join(enc.nonce, enc.ct)))
    ELSE IF c.mode = "public"
    THEN LET sym_key == GenerateSalt(e, 32)
             ek == RsaEncryptKey(c.key, e)
             enc == AesGcmEncrypt(e + 1, sym_key, data)
         IN Join(<<2>>, Join(ToBytes2(Len(ek)), Join(ek, Join(enc.nonce, enc.ct))))
    ELSE Join(<<0>>, data)

\* the percent reported before image i of n_images is written (for the
\* image counts used here the float product is the exact quotient)
ShardProgressDescending(i_, n_images) == 30 + (((n_images - i_) * 60) \div n_images)
ShardProgress(i_, n_images) == 30 + ((i_ * 60) \div n_images)

\* math.ceil(total_size / n_images)
ChunkSize(total_size, n_images) == (total_size + n_images - 1) \div n_images

LocoInit ==
    /\ pc = "loco_start"
    /\ tie = "asc"
    /\ fn_in \in [n_images : 0 .. MaxImages,
                  payload_exists : BOOLEAN,
                  cred : Credentials,
                  data : Payloads,
                  fails_at : 0 .. MaxImages]
    /\ fn_out = <<>>
    /\ NoCall

\* Locomotive.embed, step 1: read the payload file
LocoRead ==
    /\ pc = "loco_start"
    /\ progress' = <<5>>
    /\ pc' = IF fn_in.payload_exists THEN "loco_read" ELSE "loco_error"
    /\ UNCHANGED <<fn_in, fn_out, tie, cover_path, mem, rgb, entropy_map,
                   capacity_map, cred, payload, stream, order, bits, bit_pos,
                   i, stego, x, result>>
    /\ UNCHANGED engineVars

\* Locomotive.embed, steps 2-3: encrypt, prepare the output directory
LocoEncrypt ==
    /\ pc = "loco_read"
    /\ progress' = progress \o <<15>>
    /\ \E e \in Entropy :
         IF \/ fn_in.cred.mode = "password" /\ fn_in.cred.password = <<>>
            \/ fn_in.n_images = 0
         THEN /\ pc' = "loco_error"
              /\ UNCHANGED stream
         ELSE /\ pc' = "loco_encrypted"
              /\ stream' = EncryptData(e, fn_in.cred, fn_in.data)
    /\ UNCHANGED <<fn_in, fn_out, tie, cover_path, mem, rgb, entropy_map,
                   capacity_map, cred, payload, order, bits, bit_pos,
                   i, stego, x, result>>
    /\ UNCHANGED engineVars

\* Locomotive.embed, case A: one image; the payload (one block here) gets
\* its fragment header and is appended to the image file
LocoSingle ==
    /\ pc = "loco_encrypted"
    /\ fn_in.n_images = 1
    /\ IF fn_in.fails_at = 1
       THEN /\ progress' = progress \o <<30, 40, 70>>
            /\ pc' = "loco_error"
            /\ UNCHANGED fn_out
       ELSE /\ progress' = progress \o <<30, 40, 70, 100>>
            /\ pc' = "loco_done"
            /\ fn_out' = <<[sig |-> "FRAG", index |-> 0,
                            len |-> Len(stream), data |-> stream]>>
    /\ UNCHANGED <<fn_in, tie, cover_path, mem, rgb, entropy_map,
                   capacity_map, cred, payload, stream, order, bits, bit_pos,
                   i, stego, x, result>>
    /\ UNCHANGED engineVars

\* Locomotive.embed, case B: several images
LocoShardStart ==
    /\ pc = "loco_encrypted"
    /\ fn_in.n_images # 1
    /\ progress' = progress \o <<30>>
    /\ i' = 0
    /\ pc' = "loco_shard"
    /\ UNCHANGED <<fn_in, fn_out, tie, cover_path, mem, rgb, entropy_map,
                   capacity_map, cred, payload, stream, order, bits, bit_pos,
                   stego, x, result>>
    /\ UNCHANGED engineVars

\* Locomotive.embed, case B: the part of image i gets its shard header and
\* is appended to the image file
LocoShardStep ==
    /\ pc = "loco_shard"
    /\ i < fn_in.n_images
    /\ progress' = progress \o <<ShardProgress(i, fn_in.n_images)>>
    /\ LET chunk_size == ChunkSize(Len(stream), fn_in.n_images)
           start == i * chunk_size
       IN IF fn_in.fails_at = i + 1
          THEN /\ pc' = "loco_error"
               /\ UNCHANGED <<fn_out, i>>
          ELSE /\ fn_out' = Append(fn_out,
                               [index |-> i, total |-> fn_in.n_images,
                                data |-> Slice(stream, start, start + chunk_size)])
               /\ i' = i + 1
               /\ UNCHANGED pc
    /\ UNCHANGED <<fn_in, tie, cover_path, mem, rgb, entropy_map,
                   capacity_map, cred, payload, stream, order, bits, bit_pos,
                   stego, x, result>>
    /\ UNCHANGED engineVars

LocoShardDone ==
    /\ pc = "loco_shard"
    /\ i = fn_in.n_images
    /\ progress' = progress \o <<100>>
    /\ pc' = "loco_done"
    /\ UNCHANGED <<fn_in, fn_out, tie, cover_path, mem, rgb, entropy_map,
                   capacity_map, cred, payload, stream, order, bits, bit_pos,
                   i, stego, x, result>>
    /\ UNCHANGED engineVars

LocoNext ==
    \/ LocoRead
    \/ LocoEncrypt
    \/ LocoSingle
    \/ LocoShardStart
    \/ LocoShardStep
    \/ LocoShardDone

\* calls of LSBPP.embed, LSBPP.extract and Locomotive.embed
SpecProgress == (Init \/ LocoInit) /\ [][Next \/ LocoNext]_vars

\* ------------------------------------------- functions applied on their own
\* entropy maps of OrderSide x OrderSide pixels, flattened, over two levels
OrderSide == 2
OrderPixels == 0 .. (OrderSide * OrderSide - 1)
EntropyLevels == {0, Scale}
OrderMaps == [OrderPixels -> EntropyLevels]

\* seed strings: the default seed, passwords, key fingerprints
Seeds ==
    {DefaultSeed, <<>>, <<97>>, <<98>>}
    \cup {Join(AsymPrefix, FingerprintPublicKey(k)) : k \in KeyPairs}

OrderInit ==
    /\ pc = "order_input"
    /\ tie \in TieOrders
    /\ fn_in \in [entropy_map : OrderMaps, seed : Seeds]
    /\ fn_out = <<>>
    /\ NoCall

\* build_pixel_order, both implementations, on one entropy map and seed
OrderApply ==
    /\ pc = "order_input"
    /\ fn_out' = [order |-> BuildPixelOrder(fn_in.entropy_map, fn_in.seed, tie),
                  engine |-> BuildPixelOrderEngine(fn_in.entropy_map,
                                                   fn_in.seed, tie),
                  sorted_idx |-> SortedIdx(fn_in.entropy_map, tie),
                  sorted_list |-> SortedList(fn_in.entropy_map, tie)]
    /\ pc' = "order_output"
    /\ UNCHANGED <<fn_in, tie>>
    /\ UNCHANGED callVars

OrderNext == OrderApply

SpecOrder == OrderInit /\ [][OrderNext]_vars

\* ways of setting the least-significant bits of an image
LsbPatterns == 0 .. 4

\* the image px with the least-significant bit of every channel value set
\* by pattern q, the upper seven bits kept
WithLsbs(px, q) ==
    Table([f \in DOMAIN px |->
             [ch \in 1 .. 3 |->
                ClearLsb(px[f][ch])
                + (CASE q = 0 -> 0
                     [] q = 1 -> 1
                     [] q = 2 -> (f + ch) % 2
                     [] q = 3 -> ((7 * f + 3 * ch) \div 2) % 2
                     [] OTHER -> 1 - (px[f][ch] % 2))]])

AnalysisInit ==
    /\ pc = "analysis_input"
    /\ tie = "asc"
    /\ fn_in \in [cover : Covers, a : LsbPatterns, b : LsbPatterns]
    /\ fn_out = <<>>
    /\ NoCall

\* compute_texture_features and compute_capacity on two images that differ
\* in least-significant bits only: the maps by bit pattern
AnalysisApply ==
    /\ pc = "analysis_input"
    /\ fn_out' = Table([q \in {fn_in.a, fn_in.b} |->
                     LET tf == ComputeTextureFeatures(
                                   WithLsbs(CoverImage(fn_in.cover), q))
                     IN [entropy |-> tf.entropy,
                         capacity |-> ComputeCapacity(tf.surface)]])
    /\ pc' = "analysis_output"
    /\ UNCHANGED <<fn_in, tie>>
    /\ UNCHANGED callVars

AnalysisNext == AnalysisApply

SpecAnalysis == AnalysisInit /\ [][AnalysisNext]_vars

CapacityInit ==
    /\ pc = "capacity_input"
    /\ tie = "asc"
    /\ fn_in \in 0 .. Scale
    /\ fn_out = <<>>
    /\ NoCall

\* compute_capacity on a surface map holding one score
CapacityApply ==
    /\ pc = "capacity_input"
    /\ fn_out' = ComputeCapacity([f \in {0} |-> fn_in])[0]
    /\ pc' = "capacity_output"
    /\ UNCHANGED <<fn_in, tie>>
    /\ UNCHANGED callVars

CapacityNext == CapacityApply

SpecCapacity == CapacityInit /\ [][CapacityNext]_vars

\* payload bytes, and bytes that may follow the stream in what was read
EnvelopePayloads == Payloads \cup {<<0>>, <<255, 0, 128>>}
ExtraBytes == {<<>>, <<0>>, <<255>>, <<1, 2, 3>>}

EnvelopeInit ==
    /\ pc = "envelope_input"
    /\ tie = "asc"
    /\ fn_in \in [cred : {c \in Credentials :
                            c.mode = "password" => c.password # <<>>},
                  payload : EnvelopePayloads,
                  e : Entropy,
                  extra : ExtraBytes]
    /\ fn_out = <<>>
    /\ NoCall

\* the stream builder of a mode, then its parser on the stream followed by
\* the extra bytes
EnvelopeApply ==
    /\ pc = "envelope_input"
    /\ LET c == fn_in.cred
           built == IF c.mode = "password"
                    THEN BuildSymmetricStream(fn_in.e, c.password, fn_in.payload)
                    ELSE IF c.mode = "public"
                    THEN BuildAsymmetricStream(fn_in.e, c.key, fn_in.payload).stream
                    ELSE BuildPlainStream(fn_in.payload)
           read == Join(built, fn_in.extra)
       IN fn_out' = [stream |-> built,
                     parsed |-> IF c.mode = "password"
                                THEN DecryptSymmetricStream(read, c.password)
                                ELSE IF c.mode = "public"
                                THEN DecryptAsymmetricStream(read, c.key)
                                ELSE DecryptPlainStream(read)]
    /\ pc' = "envelope_output"
    /\ UNCHANGED <<fn_in, tie>>
    /\ UNCHANGED callVars

EnvelopeNext == EnvelopeApply

SpecEnvelope == EnvelopeInit /\ [][EnvelopeNext]_vars

\* one byte of the ciphertext-with-tag field is replaced by another value
TamperDeltas == {1, 128, 255}

TamperInit ==
    /\ pc = "tamper_input"
    /\ tie = "asc"
    /\ fn_in \in {t \in [cred : {c \in Credentials :
                                   \/ c.mode = "public"
                                   \/ c.mode = "password" /\ c.password # <<>>},
                          payload : EnvelopePayloads,
                          e : Entropy,
                          pos : 0 .. 3 + TagLen - 1,
                          delta : TamperDeltas] :
                  t.pos < Len(t.payload) + TagLen}
    /\ fn_out = <<>>
    /\ NoCall

\* the stream builder of an encrypted mode, a change of the byte at offset
\* pos of the ciphertext field, then the mode's parser with the credential
\* the stream was built for
TamperApply ==
    /\ pc = "tamper_input"
    /\ LET c == fn_in.cred
           built == IF c.mode = "password"
                    THEN BuildSymmetricStream(fn_in.e, c.password, fn_in.payload)
                    ELSE BuildAsymmetricStream(fn_in.e, c.key, fn_in.payload).stream
           idx == IF c.mode = "password"
                  THEN 1 + HEADER_LEN + SALT_LEN + NONCE_LEN
                  ELSE 1 + HEADER_LEN + 2 + FromBytes2(Slice(built, 8, 10))
                       + NONCE_LEN
           at == idx + fn_in.pos + 1
           tampered == [built EXCEPT ![at] = (@ + fn_in.delta) % 256]
       IN fn_out' = [stream |-> built,
                     tampered |-> tampered,
                     parsed |-> IF c.mode = "password"
                                THEN DecryptSymmetricStream(tampered, c.password)
                                ELSE DecryptAsymmetricStream(tampered, c.key)]
    /\ pc' = "tamper_output"
    /\ UNCHANGED <<fn_in, tie>>
    /\ UNCHANGED callVars

TamperNext == TamperApply

SpecTamper == TamperInit /\ [][TamperNext]_vars

\* ------------------------------------------------ Locomotive fragmentation
FRAG_SIG == <<70, 82, 65, 71>>
BLOCK_SIZE == 4096
MaxBlocks == 2

\* struct.pack('>4sII', FRAG_SIG, idx, chunk_len)
PackFragHeader(idx, chunk_len) ==
    Join(FRAG_SIG, Join(ToBytes4(Limbs(idx)), ToBytes4(Limbs(chunk_len))))

\* fragment_payload, first loop: chunk i is data[i*BLOCK_SIZE : (i+1)*BLOCK_SIZE]
ChunkList(data) ==
    LET chunks_count == (Len(data) + BLOCK_SIZE - 1) \div BLOCK_SIZE
    IN Table([c \in 0 .. chunks_count - 1 |->
                 [index |-> c,
                  data |-> Slice(data, c * BLOCK_SIZE, c * BLOCK_SIZE + BLOCK_SIZE)]])

\* the arrangements random.shuffle can leave a list of n items in
ShuffleOutcomes(n) ==
    {q \in [0 .. n - 1 -> 0 .. n - 1] : \A a, b \in 0 .. n - 1 : q[a] = q[b] => a = b}

RECURSIVE EmitChunks(_, _, _)
\* fragment_payload, second loop: final_stream += header + chunk_data
EmitChunks(chunk_list, k, final_stream) ==
    IF k >= Cardinality(DOMAIN chunk_list) THEN final_stream
    ELSE LET item == chunk_list[k]
             header == PackFragHeader(item.index, Len(item.data))
         IN EmitChunks(chunk_list, k + 1,
                       Join(final_stream, Join(header, item.data)))

\* fragment_payload(data) when random.shuffle leaves the chunks in the
\* arrangement shuffled (position k holds chunk shuffled[k])
FragmentPayload(data, shuffled) ==
    LET chunk_list == ChunkList(data)
        after == Table([k \in DOMAIN chunk_list |-> chunk_list[shuffled[k]]])
    IN EmitChunks(after, 0, <<>>)

RECURSIVE WalkChunks(_, _, _)
\* defragment_payload, the loop over the records of the stream
WalkChunks(stream_bytes, cursor, found_chunks) ==
    LET stream_len == Len(stream_bytes)
        sig == Slice(stream_bytes, cursor, cursor + 4)
        idx == Narrow(FromBytes4(Slice(stream_bytes, cursor + 4, cursor + 8)))
        length == Narrow(FromBytes4(Slice(stream_bytes, cursor + 8, cursor + 12)))
        data_start == cursor + 12
    IN IF cursor >= stream_len THEN found_chunks
       ELSE IF cursor + 12 > stream_len THEN found_chunks
       ELSE IF sig # FRAG_SIG THEN found_chunks
       ELSE IF length > stream_len - data_start THEN found_chunks
       ELSE WalkChunks(stream_bytes, data_start + length,
                       Append(found_chunks,
                              [index |-> idx,
                               data |-> Slice(stream_bytes, data_start,
                                              data_start + length)]))

RECURSIVE SortChunks(_, _)
\* found_chunks.sort(key=index): a stable sort, by insertion of chunk k into
\* the sorted chunks before it
KeepChunkOrder(found_chunks, k) == found_chunks
SortChunks(found_chunks, k) ==
    IF k > Len(found_chunks) THEN found_chunks
    ELSE LET c == found_chunks[k]
             at == Cardinality({j \in 1 .. k - 1 :
                                   found_chunks[j].index <= c.index}) + 1
             moved == [j \in 1 .. Len(found_chunks) |->
                          IF j < at \/ j > k THEN found_chunks[j]
                          ELSE IF j = at THEN c
                          ELSE found_chunks[j - 1]]
         IN SortChunks(moved, k + 1)

RECURSIVE JoinChunks(_, _, _)
\* b''.join of the data of the chunks
JoinChunks(found_chunks, k, out) ==
    IF k > Len(found_chunks) THEN out
    ELSE JoinChunks(found_chunks, k + 1, Join(out, found_chunks[k].data))

\* defragment_payload(stream): the joined data, or None
DefragmentPayload(stream_bytes) ==
    LET found_chunks == WalkChunks(stream_bytes, 0, <<>>)
    IN IF found_chunks = <<>> THEN Err("none")
       ELSE Ok(JoinChunks(SortChunks(found_chunks, 1), 1, <<>>))

\* data of 1 byte and of lengths around each multiple of the block size up
\* to MaxBlocks blocks, in four byte patterns (one repeats the signature)
FragLengths ==
    {1} \cup {b * BLOCK_SIZE + d : b \in 1 .. MaxBlocks, d \in {-1, 0, 1}}
FragData(n, pattern) ==
    Table([k \in 1 .. n |->
              CASE pattern = "ramp" -> (k * 7) % 256
                [] pattern = "sig" -> FRAG_SIG[((k - 1) % 4) + 1]
                [] pattern = "zeros" -> 0
                [] pattern = "blocks" -> ((k - 1) \div BLOCK_SIZE + 1) % 256])
FragPatterns == {"ramp", "sig", "zeros", "blocks"}

FragInit ==
    /\ pc = "fragment_input"
    /\ tie = "asc"
    /\ fn_in \in {[data |-> FragData(n, pattern)] :
                     n \in FragLengths, pattern \in FragPatterns}
    /\ fn_out = <<>>
    /\ NoCall

\* fragment_payload(data), with each outcome of random.shuffle
FragmentApply ==
    /\ pc = "fragment_input"
    /\ \E shuffled \in ShuffleOutcomes(Cardinality(DOMAIN ChunkList(fn_in.data))) :
           fn_out' = [shuffled |-> shuffled,
                      stream |-> FragmentPayload(fn_in.data, shuffled)]
    /\ pc' = "fragment_output"
    /\ UNCHANGED <<fn_in, tie>>
    /\ UNCHANGED callVars

\* defragment_payload on the stream fragment_payload returned
DefragmentApply ==
    /\ pc = "fragment_output"
    /\ fn_out' = [shuffled |-> fn_out.shuffled,
                  stream |-> fn_out.stream,
                  data |-> DefragmentPayload(fn_out.stream)]
    /\ pc' = "defragment_output"
    /\ UNCHANGED <<fn_in, tie>>
    /\ UNCHANGED callVars

FragNext == FragmentApply \/ DefragmentApply

SpecFragment == FragInit /\ [][FragNext]_vars

\* ------------------------------------------------------ capacity simulation
RECURSIVE CountRange(_, _, _, _)
\* the number of positions lo .. hi of the order whose pixel has capacity
CountRange(order_, capacity_flat, lo, hi) ==
    IF lo > hi THEN 0
    ELSE IF lo = hi
    THEN (IF capacity_flat[order_[lo]] > 0 THEN 1 ELSE 0)
    ELSE LET mid == (lo + hi) \div 2
         IN CountRange(order_, capacity_flat, lo, mid)
            + CountRange(order_, capacity_flat, mid + 1, hi)

CalculatePixelCount(order_, capacity_flat) ==
    CountRange(order_, capacity_flat, 0, Cardinality(DOMAIN order_) - 1)

RECURSIVE ExactRange(_, _, _, _)
\* total_bits accumulated over positions lo .. hi of the order
ExactRange(order_, capacity_flat, lo, hi) ==
    IF lo > hi THEN 0
    ELSE IF lo = hi
    THEN LET cap == capacity_flat[order_[lo]]
         IN IF cap > 0 THEN cap ELSE 0
    ELSE LET mid == (lo + hi) \div 2
         IN ExactRange(order_, capacity_flat, lo, mid)
            + ExactRange(order_, capacity_flat, mid + 1, hi)

\* calculate_exact_capacity: the raw sum of the positive capacities of the
\* pixels of the order
CalculateExactCapacity(order_, capacity_flat) ==
    ExactRange(order_, capacity_flat, 0, Cardinality(DOMAIN order_) - 1)

\* capacity maps as compute_capacity produces them (values 0 .. 3) and the
\* orders build_pixel_order produces
SimCapacities ==
    RequestedCapacities
    \cup {Table([f \in Pixels |-> 0]), Table([f \in Pixels |-> 3])}
SimOrders ==
    {Table([f \in Pixels |-> f]),
     BuildPixelOrder(SyntheticEntropy, DefaultSeed, "asc")}

\* a bit list of n bits
SimBits(n) == Table([k \in 1 .. n |-> (k + (k \div 3)) % 2])

SimInit ==
    /\ pc = "capacity_input"
    /\ tie = "asc"
    /\ cover_path \in {1, 2}
    /\ mem = [cover |-> CoverImage(cover_path), copy |-> CoverImage(cover_path)]
    /\ rgb = EmbedTarget
    /\ entropy_map = <<>>
    /\ capacity_map \in SimCapacities
    /\ cred = NoCred
    /\ payload = <<>>
    /\ stream = <<>>
    /\ order \in SimOrders
    /\ bits = <<>>
    /\ bit_pos = 0
    /\ i = 0
    /\ stego = "none"
    /\ progress = <<>>
    /\ x = NoExtract
    /\ result = <<>>
    /\ fn_in = <<>>
    /\ fn_out = <<>>
    /\ EngineIdle

\* calculate_exact_capacity on the order and the capacity map; a bit list
\* about as long as the value it returned then goes to embed_bits_low_level
SimCalculate ==
    /\ pc = "capacity_input"
    /\ LET total_bits == CalculateExactCapacity(order, capacity_map)
       IN /\ fn_out' = [total_bits |-> total_bits]
          /\ \E n \in {0, total_bits - 1, total_bits, total_bits + 1} :
                 /\ n >= 0
                 /\ bits' = SimBits(n)
    /\ pc' = "embed_loop"
    /\ UNCHANGED engineVars
    /\ UNCHANGED <<fn_in, tie, cover_path, mem, rgb, entropy_map, capacity_map,
                   cred, payload, stream, order, bit_pos, i, stego, progress, x,
                   result>>

SimNext == SimCalculate \/ EmbedLoopStep \/ EmbedFinish

SpecSimulation == SimInit /\ [][SimNext]_vars

\* ---------------------------------------------------- bitstream functions
MaxData == 2
BitsBytes == {0, 1, 83, 128, 255}
ByteStrings == UNION {[1 .. n -> BitsBytes] : n \in 0 .. MaxData}

\* bits that follow the data's bits: up to 9 of them, all 0, all 1 or
\* alternating
ExtraBits ==
    {[k \in 1 .. n |-> CASE p = "zeros" -> 0
                         [] p = "ones" -> 1
                         [] p = "odd" -> k % 2
                         [] p = "even" -> (k + 1) % 2] :
        n \in 0 .. 9, p \in {"zeros", "ones", "odd", "even"}}

BitsInit ==
    /\ pc = "bits_input"
    /\ tie = "asc"
    /\ fn_in \in [data : ByteStrings, extra : ExtraBits]
    /\ fn_out = <<>>
    /\ NoCall

\* bytes_to_bits(data), bits_to_bytes of the result, and bits_to_bytes of
\* the result followed by the extra bits
BitsApply ==
    /\ pc = "bits_input"
    /\ LET data_bits == BytesToBits(fn_in.data)
       IN fn_out' = [bits |-> data_bits,
                     back |-> BitsToBytes(data_bits),
                     padded |-> BitsToBytes(Join(data_bits, fn_in.extra))]
    /\ pc' = "bits_output"
    /\ UNCHANGED <<fn_in, tie>>
    /\ UNCHANGED callVars

BitsNext == BitsApply

SpecBits == BitsInit /\ [][BitsNext]_vars

\* ------------------------------------------------------- header functions
\* lengths around the ends of the uint32 range, as limbs <<hi, lo>>:
\* <<-1, 65535>> is -1, <<65535, 65535>> is 2^32 - 1, <<65536, 0>> is 2^32
HeaderLengths ==
    {<<hi, lo>> : hi \in {-1, 0, 1, 255, 256, 65535, 65536},
                  lo \in {0, 1, 255, 256, 65535}}

\* what reaches validate_header: the header as built, or one with a byte
\* missing, a byte too many, no bytes, or one byte of the magic changed
HeaderDamages ==
    {"none", "drop_last", "append", "empty", "magic_0", "magic_1", "magic_2",
     "lowercase"}

DamageHeader(h, d) ==
    CASE d = "none" -> h
      [] d = "drop_last" -> Slice(h, 0, Len(h) - 1)
      [] d = "append" -> Join(h, <<0>>)
      [] d = "empty" -> <<>>
      [] d = "magic_0" -> [h EXCEPT ![1] = 84]
      [] d = "magic_1" -> [h EXCEPT ![2] = 83]
      [] d = "magic_2" -> [h EXCEPT ![3] = 0]
      [] d = "lowercase" -> [h EXCEPT ![1] = 115, ![2] = 116, ![3] = 103]

HeaderInit ==
    /\ pc = "header_input"
    /\ tie = "asc"
    /\ fn_in \in [payload_length : HeaderLengths, damage : HeaderDamages]
    /\ fn_out = <<>>
    /\ NoCall

\* build_plain_header(payload_length)
HeaderBuild ==
    /\ pc = "header_input"
    /\ LET header == BuildPlainHeader(fn_in.payload_length)
       IN /\ fn_out' = [header |-> header]
          /\ pc' = IF header.ok THEN "header_built" ELSE "header_error"
    /\ UNCHANGED <<fn_in, tie>>
    /\ UNCHANGED callVars

\* validate_header on the bytes that arrive
HeaderValidate ==
    /\ pc = "header_built"
    /\ LET plain_header == DamageHeader(fn_out.header.val, fn_in.damage)
       IN fn_out' = [header |-> fn_out.header,
                     plain_header |-> plain_header,
                     payload_len |-> ValidateHeader(plain_header)]
    /\ pc' = "header_validated"
    /\ UNCHANGED <<fn_in, tie>>
    /\ UNCHANGED callVars

HeaderNext == HeaderBuild \/ HeaderValidate

SpecHeader == HeaderInit /\ [][HeaderNext]_vars

\* ways a stream read from an image can be malformed: its last bytes are
\* missing, or a byte of the magic differs
Damages ==
    {[kind |-> "cut", n |-> n] : n \in 1 .. 2}
    \cup {[kind |-> "magic", n |-> n] : n \in 1 .. MAGIC_LEN}

Damage(stream_bytes, d) ==
    IF d.kind = "cut"
    THEN Slice(stream_bytes, 0, Len(stream_bytes) - d.n)
    ELSE [stream_bytes EXCEPT ![1 + d.n] = (@ + 1) % 256]

MalformedInit ==
    /\ pc = "malformed_input"
    /\ tie = "asc"
    /\ fn_in \in [cred : {c \in Credentials :
                            c.mode = "password" => c.password # <<>>},
                  payload : EnvelopePayloads,
                  e : Entropy,
                  damage : Damages]
    /\ fn_out = <<>>
    /\ NoCall

\* the stream builder of a mode, the damage, then step 7 of LSBPP.extract
\* with the mode and credential the stream was built for
MalformedApply ==
    /\ pc = "malformed_input"
    /\ LET c == fn_in.cred
           built == IF c.mode = "password"
                    THEN BuildSymmetricStream(fn_in.e, c.password, fn_in.payload)
                    ELSE IF c.mode = "public"
                    THEN BuildAsymmetricStream(fn_in.e, c.key, fn_in.payload).stream
                    ELSE BuildPlainStream(fn_in.payload)
           read == Damage(built, fn_in.damage)
       IN fn_out' = [stream |-> built,
                     read |-> read,
                     parsed |-> DecryptStream(read, c)]
    /\ pc' = "malformed_output"
    /\ UNCHANGED <<fn_in, tie>>
    /\ UNCHANGED callVars

MalformedNext == MalformedApply

SpecMalformed == MalformedInit /\ [][MalformedNext]_vars

\* ================================================================ claims
\* the sum of the capacity map over all pixels
TotalCapacity == SumRange(capacity_map, 0, NumPixels - 1)

\* the embed call got as far as calling embed_bits_low_level
EmbedRan == pc \notin {"embed_load", "embed_analyzed", "embed_rejected"}

\* C1 -- round trip: an embed whose envelope fits the capacity of the cover
\* does not fail, and extract on the image it returned, with the same mode
\* and the matching credential, returns exactly the payload.
C1_RoundTrip ==
    /\ (pc = "embed_error" => Len(bits) > TotalCapacity)
    /\ (pc = "extract_done" /\ x.cred = cred => result = Ok(payload))

C1_Witness ==
    /\ pc = "extract_done"
    /\ x.cred = cred
    /\ cred.mode = "password"
    /\ Len(payload) > 0
    /\ Len(bits) <= TotalCapacity
    /\ mem[stego] # mem.cover
    /\ result = Ok(payload)

\* C2 -- analysis invariance: for two images that differ only in the
\* least-significant bits of channel values, compute_texture_features
\* followed by compute_capacity gives identical entropy maps and identical
\* capacity maps, as it does for a cover and the stego image made from it.
C2_AnalysisInvariance ==
    pc = "analysis_output" =>
        /\ fn_out[fn_in.a].entropy = fn_out[fn_in.b].entropy
        /\ fn_out[fn_in.a].capacity = fn_out[fn_in.b].capacity

C2_Witness ==
    /\ pc = "analysis_output"
    /\ fn_in.a = 4
    /\ fn_in.b = 2
    /\ \E f \in Pixels : fn_out[fn_in.a].capacity[f] = 3
    /\ \E f \in Pixels : fn_out[fn_in.a].capacity[f] = 1
    /\ fn_out[fn_in.a] = fn_out[fn_in.b]

\* C3 -- capacity exhaustion: when the envelope has more bits than the sum
\* of the capacity map, the embedding loop ends in the capacity error and
\* embed returns no stego image.
C3_CapacityExhaustion ==
    /\ (EmbedRan /\ pc # "embed_loop" /\ Len(bits) > TotalCapacity
            => pc = "embed_error")
    /\ (EmbedRan /\ Len(bits) > TotalCapacity => stego = "none")

C3_Witness ==
    /\ pc = "embed_error"
    /\ Len(bits) > TotalCapacity
    /\ TotalCapacity > 0
    /\ stego = "none"

\* C4 (as stated) -- when the capacity error is raised, no channel value of
\* the buffer given to embed_bits_low_level has been modified.
C4_NoWriteBeforeError ==
    pc = "embed_error" => mem[rgb] = CoverImages[cover_path]

\* C4 (amended) -- the capacity error is raised only once the loop has gone
\* through the whole pixel order: every bit that fits has then been written
\* into the buffer the loop was given, which differs from its input in
\* least-significant bits at most, while the caller's cover array is
\* untouched and no image is returned.
C4_ErrorAfterLoop ==
    pc = "embed_error" =>
        LET given == CoverImages[cover_path]
        IN /\ i = NumPixels
           /\ bit_pos = TotalCapacity
           /\ \A f \in Pixels : \A ch \in 1 .. 3 :
                 ClearLsb(mem[rgb][f][ch]) = ClearLsb(given[f][ch])
           /\ mem.cover = given
           /\ stego = "none"

C4_Witness ==
    /\ pc = "embed_error"
    /\ i = NumPixels
    /\ bit_pos > 0
    /\ mem[rgb] # CoverImages[cover_path]

\* C5 -- embed never mutates the cover: during and after the embedding
\* loop, whether it succeeds or ends in the capacity error, the cover array
\* equals what was loaded, the loop writing into a copy only.
C5_CoverUntouched ==
    /\ mem.cover = CoverImages[cover_path]
    /\ (EmbedRan => rgb # "cover")

C5_Witness ==
    /\ pc = "embed_done"
    /\ stego = "copy"
    /\ mem.copy # mem.cover
    /\ mem.cover = CoverImages[cover_path]

\* C6 -- embedding only mutates least-significant bits: the image a
\* successful embed_bits_low_level returns has the dimensions of its input
\* and, in every channel of every pixel, the input's upper seven bits.
C6_OnlyLsbMutated ==
    stego # "none" =>
        LET given == CoverImages[cover_path]
            returned == mem[stego]
        IN /\ DOMAIN returned = DOMAIN given
           /\ \A f \in Pixels :
                 /\ Len(returned[f]) = Len(given[f])
                 /\ \A ch \in 1 .. 3 :
                       ClearLsb(returned[f][ch]) = ClearLsb(given[f][ch])

C6_Witness ==
    /\ pc = "embed_done"
    /\ \E f \in Pixels : \E ch \in 1 .. 3 :
          /\ mem[stego][f][ch] # mem.cover[f][ch]
          /\ mem.cover[f][ch] % 2 = 1

\* each index of 0 .. n - 1 exactly once, in a sequence of length n
IsPermutation(o, n) ==
    /\ DOMAIN o = 0 .. (n - 1)
    /\ \A f \in 0 .. (n - 1) : Cardinality({r \in DOMAIN o : o[r] = f}) = 1

\* C7 -- permutation: for every entropy map of H x W entries and every
\* seed, build_pixel_order (either implementation) returns H*W indices that
\* hold each flat index of [0, H*W) exactly once.
C7_Permutation ==
    pc = "order_output" =>
        /\ IsPermutation(fn_out.order, Cardinality(DOMAIN fn_in.entropy_map))
        /\ IsPermutation(fn_out.engine, Cardinality(DOMAIN fn_in.entropy_map))

C7_Witness ==
    /\ pc = "order_output"
    /\ \E f, g \in OrderPixels :
          f # g /\ fn_in.entropy_map[f] = fn_in.entropy_map[g]
    /\ \E f, g \in OrderPixels : fn_in.entropy_map[f] < fn_in.entropy_map[g]
    /\ fn_out.order # Argsort(fn_in.entropy_map, tie)
    /\ fn_out.order # fn_out.engine
    /\ IsPermutation(fn_out.order, OrderSide * OrderSide)

\* C8 -- build_pixel_order is deterministic: the call extract makes with an
\* entropy map and a seed equal to those of embed's call returns the same
\* index sequence, so that with the matching credential the extractor
\* traverses the pixels in exactly the order the embedder used.
C8_SameOrder ==
    pc = "extract_done" /\ x.order # <<>> =>
        /\ (x.entropy = entropy_map /\ ExtractSeed(x.cred) = EmbedSeed(cred)
                => x.order = order)
        /\ (x.cred = cred => x.order = order)

C8_Witness ==
    /\ pc = "extract_done"
    /\ x.cred = cred
    /\ cred.mode = "public"
    /\ x.order = order
    /\ \E r \in Pixels : order[r] # r

\* C9 -- threshold table: compute_capacity maps a surface score s to 0 when
\* s <= 0.15, to 1 when 0.15 < s <= 0.25, to 2 when 0.25 < s <= 0.65 and to
\* 3 when s > 0.65; the scores 0.15, 0.25 and 0.65 themselves fall in the
\* lower bucket, and every output is one of 0, 1, 2, 3.
C9_ThresholdTable ==
    pc = "capacity_output" =>
        /\ fn_out \in 0 .. 3
        /\ (100 * fn_in <= 15 * Scale => fn_out = 0)
        /\ (15 * Scale < 100 * fn_in /\ 100 * fn_in <= 25 * Scale => fn_out = 1)
        /\ (25 * Scale < 100 * fn_in /\ 100 * fn_in <= 65 * Scale => fn_out = 2)
        /\ (65 * Scale < 100 * fn_in => fn_out = 3)

C9_Witness ==
    /\ pc = "capacity_output"
    /\ 100 * fn_in = 65 * Scale
    /\ fn_out = 2

\* C10 -- envelope round trip: in each mode, the parser of the mode applied
\* to the stream built from a payload, with the same password or the
\* matching private key, returns the payload, also when extra bytes follow
\* the stream.
C10_EnvelopeRoundTrip ==
    pc = "envelope_output" => fn_out.parsed = Ok(fn_in.payload)

C10_Witness ==
    /\ pc = "envelope_output"
    /\ fn_in.cred.mode = "public"
    /\ Len(fn_in.payload) > 1
    /\ Len(fn_in.extra) > 1
    /\ fn_out.parsed = Ok(fn_in.payload)

\* C11 -- wire format: a built stream starts with the mode byte (0x00 none,
\* 0x01 password, 0x02 public key) and the 7-byte header "STG" + uint32
\* big-endian length; the length is len(payload) in mode none, where the
\* stream has 8 + len(payload) bytes, and len(ciphertext with tag) in the
\* encrypted modes; password mode continues with salt(16), nonce(12),
\* ciphertext; public-key mode with ek_len(2, big-endian), ek(ek_len),
\* nonce(12), ciphertext.
C11_WireFormat ==
    pc = "envelope_output" =>
        LET c == fn_in.cred
            P == fn_in.payload
            st == fn_out.stream
            length == Narrow(FromBytes4(Slice(st, 4, 8)))
        IN /\ Len(st) >= 8
           /\ st[1] = (IF c.mode = "none" THEN 0
                       ELSE IF c.mode = "password" THEN 1 ELSE 2)
           /\ Slice(st, 1, 4) = <<83, 84, 71>>
           /\ Slice(st, 4, 8) = <<0, 0, length \div 256, length % 256>>
           /\ c.mode = "none" =>
                 /\ length = Len(P)
                 /\ Len(st) = 8 + Len(P)
                 /\ Slice(st, 8, Len(st)) = P
           /\ c.mode = "password" =>
                 LET salt == Slice(st, 8, 24)
                     nonce == Slice(st, 24, 36)
                     ct == Slice(st, 36, Len(st))
                 IN /\ Len(st) = 36 + length
                    /\ length = Len(P) + TagLen
                    /\ AesGcmDecrypt(DeriveKeyArgon2id(c.password, salt),
                                     nonce, ct) = Ok(P)
           /\ c.mode = "public" =>
                 LET ek_len == st[9] * 256 + st[10]
                     ek == Slice(st, 10, 10 + ek_len)
                     nonce == Slice(st, 10 + ek_len, 22 + ek_len)
                     ct == Slice(st, 22 + ek_len, Len(st))
                     sym_key == RsaDecryptKey(c.key, ek)
                 IN /\ Len(st) = 22 + ek_len + length
                    /\ length = Len(P) + TagLen
                    /\ sym_key.ok
                    /\ AesGcmDecrypt(sym_key.val, nonce, ct) = Ok(P)

C11_Witness ==
    /\ pc = "envelope_output"
    /\ fn_in.cred.mode = "password"
    /\ Len(fn_in.payload) = 3
    /\ Len(fn_out.stream) = 39 + TagLen
    /\ fn_out.stream[8] = 3 + TagLen

\* C12 -- wrong credential rejection: extracting in password mode with a
\* password other than the one used to embed, or in public-key mode with a
\* private key that does not match, always ends in a crypto error (and so
\* never returns a payload).
C12_WrongCredentialCrypto ==
    (/\ pc = "extract_done"
     /\ cred.mode \in {"password", "public"}
     /\ x.cred.mode = cred.mode
     /\ x.cred # cred
     /\ ~(x.cred.mode = "password" /\ x.cred.password = <<>>))
        => result = Err("crypto")

\* C13 -- tamper detection: in the encrypted modes, a stream in which a byte
\* of the ciphertext-with-tag field was changed makes the parser end in the
\* crypto error when given the correct credential; it never returns a
\* plaintext.
C13_TamperDetected ==
    pc = "tamper_output" =>
        /\ fn_out.tampered # fn_out.stream
        /\ Len(fn_out.tampered) = Len(fn_out.stream)
        /\ fn_out.parsed = Err("crypto")

C13_Witness ==
    /\ pc = "tamper_output"
    /\ fn_in.cred.mode = "public"
    /\ Len(fn_in.payload) = 3
    /\ fn_in.pos = 1
    /\ fn_out.tampered[Len(fn_out.stream)] = fn_out.stream[Len(fn_out.stream)]
    /\ ~fn_out.parsed.ok

\* C14 -- mode mismatch: whenever the mode byte read from the extracted
\* stream is the byte of another mode than the one the caller asked for
\* (password <-> 0x01, public <-> 0x02, none <-> 0x00), extract reports the
\* mode-mismatch error, before any parsing or decryption of the remaining
\* fields, and returns no payload.
C14_ModeMismatch ==
    (/\ pc = "extract_done"
     /\ Len(x.stream) > 0
     /\ x.stream[1] \in {MODE_NONE, MODE_SYMMETRIC, MODE_ASYMMETRIC}
     /\ x.stream[1] # (IF x.cred.mode = "password" THEN MODE_SYMMETRIC
                       ELSE IF x.cred.mode = "public" THEN MODE_ASYMMETRIC
                       ELSE MODE_NONE))
        => result = Err("mode_mismatch")

\* C15 -- no partial output: whenever the stream is malformed (a byte of the
\* magic is wrong, or the length in the header exceeds the bytes available
\* after the header fields), extract ends in an error in every mode and
\* never returns a shortened or partial payload.
C15_NoPartialOutput ==
    pc = "malformed_output" => ~fn_out.parsed.ok

\* C16 -- concrete scenario, as stated: for an image in which every pixel
\* has the same mid-gray value, compute_texture_features followed by
\* compute_capacity yields a capacity of 2 bits at every pixel, and a message
\* in mode none embeds successfully.
C16_UniformCapacityTwo ==
    /\ pc # "embed_load" => \A f \in Pixels : capacity_map[f] = 2
    /\ pc # "embed_error"

\* C16 -- concrete scenario, as the code computes it: for an image in which
\* every pixel has the same mid-gray value the gradient and the entropy are 0
\* at every pixel, so the capacity is 0 bits at every pixel (0 bits in
\* total); the embedding loop writes nothing, and every embed that is not
\* rejected for its arguments ends in the capacity error, in mode none too.
C16_UniformCapacityZero ==
    /\ pc # "embed_load" =>
          /\ \A f \in Pixels : entropy_map[f] = 0 /\ capacity_map[f] = 0
          /\ TotalCapacity = 0
    /\ bit_pos = 0
    /\ pc # "embed_done"
    /\ EmbedRan => mem[rgb] = mem.cover
    /\ (pc = "embed_loop" /\ i = NumPixels) => Len(bits) > bit_pos

C16_Witness ==
    /\ pc = "embed_error"
    /\ cover_path = 128
    /\ cred.mode = "none"
    /\ Len(payload) = 1
    /\ i = NumPixels

\* C17 -- pre-pass only: in the embedding loops the noise-predictor capacity
\* adjustment and the block-safety check are never evaluated after the first
\* payload bit has been written: whenever either was evaluated, the bit
\* cursor was still 0.
C17_PrePassOnly ==
    /\ evaluated.adjust_at <= 0
    /\ evaluated.safety_at <= 0

\* C18 -- progress monotonicity: within one call of LSBPP.embed,
\* LSBPP.extract or Locomotive.embed (for any number of cover images) the
\* percent values passed to the status callback form a non-decreasing
\* sequence.
C18_ProgressMonotone ==
    \A k \in 1 .. Len(progress) - 1 : progress[k] <= progress[k + 1]

C18_Witness ==
    /\ pc = "loco_done"
    /\ fn_in.n_images = 3
    /\ progress = <<5, 15, 30, 30, 50, 70, 100>>

\* C19 -- per-pixel budget and channel order: a pass of the loop of
\* embed_bits_low_level over a pixel whose capacity map value is c writes at
\* most c channels of that pixel and nothing else, taken in the order Blue,
\* Green, Red (capacity 1 touches only Blue, capacity 2 only Blue and
\* Green), each written channel keeping its upper seven bits and carrying
\* the next bit of the stream; a pixel with capacity 0 is left unchanged;
\* extract_bits_low_level reads the same channels in the same order, so the
\* bits it reads from the pixel start with the bits just written.
C19_ChannelBudget ==
    [][(pc = "embed_loop" /\ i' = i + 1) =>
          LET f == order[i]
              cap == capacity_map[f]
              n == bit_pos' - bit_pos
              old == mem[rgb][f]
              new == mem'[rgb][f]
              read == ExtractPixel(new, cap)
          IN /\ 0 <= n /\ n <= cap
             /\ cap = 0 => new = old
             /\ \A g \in Pixels \ {f} : mem'[rgb][g] = mem[rgb][g]
             /\ \A t \in 1 .. 3 :
                   LET ch == <<3, 2, 1>>[t]
                   IN new[ch] = IF t <= n
                                THEN 2 * (old[ch] \div 2) + bits[bit_pos + t]
                                ELSE old[ch]
             /\ Len(read) = cap
             /\ \A t \in 1 .. n : read[t] = bits[bit_pos + t]
      ]_vars

C19_Witness ==
    /\ pc = "embed_loop"
    /\ i > 0
    /\ bit_pos >= 2
    /\ LET f == order[i - 1]
       IN /\ capacity_map[f] = 2
          /\ mem[rgb][f][3] # mem.cover[f][3]
          /\ mem[rgb][f][2] # mem.cover[f][2]
          /\ mem[rgb][f][1] = mem.cover[f][1]

\* LSBPP.embed and LSBPP.extract, with the embedding loop running on once
\* it has started
SpecLoop == Spec /\ WF_vars(EmbedLoopStep) /\ WF_vars(EmbedFinish)

\* C20 -- the embed loop is a state machine with exactly two terminal
\* outcomes: embed_bits_low_level terminates, and it ends either with the
\* bit cursor equal to the payload bit length (success, image returned) or
\* with the pixel order exhausted and the cursor below the payload bit
\* length (capacity error); the bit cursor never decreases and never exceeds
\* the payload bit length.
C20_LoopTerminates ==
    /\ (pc = "embed_loop") ~> (pc \in {"embed_done", "embed_error"})
    /\ [](pc = "embed_done" => bit_pos = Len(bits) /\ stego = rgb)
    /\ [](pc = "embed_error" =>
             i = NumPixels /\ bit_pos < Len(bits) /\ stego = "none")
    /\ [](bit_pos <= Len(bits) /\ i <= NumPixels)
    /\ [][bit_pos' >= bit_pos]_vars

C20_Witness ==
    /\ pc = "embed_error"
    /\ i = NumPixels
    /\ bit_pos > 0
    /\ bit_pos < Len(bits)

\* C21 -- embed/extract lockstep: for a pixel order that is a permutation, a
\* capacity map and a bit sequence that fits, extract_bits_low_level applied
\* to the image embed_bits_low_level returned, with the same order and the
\* same capacity map, returns a sequence whose first len(bits) entries are
\* the embedded bits, in order.
C21_Lockstep ==
    pc = "embed_done" =>
        LET read == ExtractBitsLowLevel(mem[stego], order, capacity_map)
        IN /\ IsPermutation(order, NumPixels)
           /\ Len(bits) <= TotalCapacity
           /\ Len(read) = TotalCapacity
           /\ \A k \in 1 .. Len(bits) : read[k] = bits[k]

C21_Witness ==
    /\ pc = "embed_done"
    /\ cover_path = 2
    /\ cred.mode = "public"
    /\ Len(bits) > 200
    /\ Len(bits) < TotalCapacity
    /\ mem[stego] # mem.cover

\* C22 -- in the lsb_plus_engine variant extraction is the reverse of
\* embedding: whenever embed_in_lsb returns successfully,
\* extract_bits_low_level applied to the returned image with the same pixel
\* order and the same capacity map returns a sequence whose first len(bits)
\* entries are the bits that were embedded.
C22_EngineLockstep ==
    pc = "in_lsb_done" =>
        LET read == ExtractBitsLowLevel(mem[stego], order, capacity_map)
        IN /\ Len(read) >= Len(bits)
           /\ \A k \in 1 .. Len(bits) : read[k] = bits[k]

\* C23 -- block-safety rejection only forfeits that block's remaining
\* capacity: in embed_in_lsb, once the block-safety checker has rejected a
\* block every pixel of that block has its cover value, and keeps it for the
\* rest of the loop; the rejection leaves the pixels of other blocks as they
\* were, and by itself does not make the call fail (it raises nothing and
\* does not move the bit cursor back).
C23_RejectionForfeitsBlock ==
    /\ [](\A b \in DOMAIN block_done :
             block_done[b] =>
                 \A f \in Pixels :
                     BlockMap(f) = b => mem[rgb][f] = mem.cover[f])
    /\ [][\A b \in DOMAIN block_done :
             (block_done'[b] /\ ~block_done[b]) =>
                 /\ \A g \in Pixels :
                       BlockMap(g) # b => mem'[rgb][g] = mem[rgb][g]
                 /\ bit_pos' >= bit_pos
                 /\ pc' = "in_lsb_loop"
                 /\ \A c \in DOMAIN block_done :
                       c # b => block_done'[c] = block_done[c]
         ]_vars

C23_Witness ==
    /\ pc = "in_lsb_done"
    /\ block_done[0]
    /\ \E b \in DOMAIN block_done : ~block_done[b]
    /\ bit_pos = Len(bits)
    /\ mem[rgb] # mem.cover

\* C24 -- stable ordering before the shuffle: build_pixel_order sorts the
\* flat indices by entropy descending and, among pixels of equal entropy,
\* keeps them in ascending original-index order, before the seeded shuffle.
C24_StableSort ==
    pc = "order_output" =>
        LET e == fn_in.entropy_map
            sorted_idx == fn_out.sorted_idx
        IN \A r, s \in DOMAIN sorted_idx :
               r < s =>
                   \/ e[sorted_idx[r]] > e[sorted_idx[s]]
                   \/ /\ e[sorted_idx[r]] = e[sorted_idx[s]]
                      /\ sorted_idx[r] < sorted_idx[s]

\* C25 -- one PRNG project-wide: for the same entropy map and the same seed
\* string, build_pixel_order of lsb_plus/engine and build_pixel_order of
\* lsb_plus_engine/embedder return the same permutation.
C25_OnePrng == pc = "order_output" => fn_out.order = fn_out.engine

\* C26 -- header round trip and rejection:
\* build_plain_header(n) returns exactly 7 bytes, "STG" followed by n as a
\* big-endian uint32, for 0 <= n <= 2^32 - 1, and raises for n < 0 or
\* n > 2^32 - 1; validate_header(build_plain_header(n)) = n; validate_header
\* raises for an input whose length is not 7 or whose first three bytes are
\* not "STG".
C26_HeaderRoundTrip ==
    /\ pc \in {"header_built", "header_error", "header_validated"} =>
           LET n == fn_in.payload_length
               r == fn_out.header
           IN IF n[1] >= 0 /\ n[1] <= 65535
              THEN /\ r.ok
                   /\ Len(r.val) = 7
                   /\ \A k \in 1 .. 7 : r.val[k] \in Byte
                   /\ <<r.val[1], r.val[2], r.val[3]>> = <<83, 84, 71>>
                   /\ r.val[4] * 256 + r.val[5] = n[1]
                   /\ r.val[6] * 256 + r.val[7] = n[2]
              ELSE ~r.ok
    /\ pc = "header_validated" =>
           LET h == fn_out.plain_header
               v == fn_out.payload_len
           IN /\ fn_in.damage = "none" =>
                     /\ h = fn_out.header.val
                     /\ v = Ok(fn_in.payload_length)
              /\ Len(h) # 7 => ~v.ok
              /\ (Len(h) >= 3 /\ <<h[1], h[2], h[3]>> # <<83, 84, 71>>) => ~v.ok
              /\ Len(h) < 3 => ~v.ok

C26_Witness ==
    /\ pc = "header_validated"
    /\ fn_in.payload_length = <<65535, 65535>>
    /\ fn_in.damage = "none"
    /\ fn_out.payload_len.ok

\* C27 -- bit packing: bytes_to_bits emits 8 bits per byte, most significant
\* bit first; bits_to_bytes(bytes_to_bits(d)) = d for every byte string d;
\* bits_to_bytes drops an incomplete trailing byte, so
\* bits_to_bytes(bytes_to_bits(d) + extra bits) starts with d.
C27_BitPacking ==
    pc = "bits_output" =>
        LET d == fn_in.data
            b == fn_out.bits
            padded == fn_out.padded
        IN /\ Len(b) = 8 * Len(d)
           /\ \A k \in 1 .. Len(b) : b[k] \in {0, 1}
           /\ \A n \in 1 .. Len(d) :
                  LET o == 8 * (n - 1)
                  IN d[n] =   128 * b[o + 1] + 64 * b[o + 2] + 32 * b[o + 3]
                            + 16 * b[o + 4] + 8 * b[o + 5] + 4 * b[o + 6]
                            + 2 * b[o + 7] + b[o + 8]
           /\ fn_out.back = d
           /\ Len(padded) = Len(d) + (Len(fn_in.extra) \div 8)
           /\ \A n \in 1 .. Len(d) : padded[n] = d[n]

C27_Witness ==
    /\ pc = "bits_output"
    /\ fn_in.data = <<1, 128>>
    /\ Len(fn_in.extra) = 5
    /\ fn_out.padded = fn_in.data

\* C28 -- capacity simulation exactness: calculate_exact_capacity(order,
\* capacity_flat, ...) returns the sum of capacity_flat over the pixels of
\* the order, and embed_bits_low_level succeeds for every bit sequence of
\* length at most that value and fails for every longer one.
C28_ExactCapacity ==
    pc # "capacity_input" =>
        LET total_bits == fn_out.total_bits
            per_position == Table([k \in DOMAIN order |-> capacity_map[order[k]]])
        IN /\ total_bits = SumRange(per_position, 0, NumPixels - 1)
           /\ pc = "embed_done" => Len(bits) <= total_bits /\ bit_pos = Len(bits)
           /\ pc = "embed_error" => Len(bits) > total_bits
           /\ Len(bits) <= total_bits => pc # "embed_error"
           /\ (Len(bits) > total_bits /\ pc # "embed_loop") => pc = "embed_error"

C28_Witness ==
    /\ pc = "embed_done"
    /\ Len(bits) = fn_out.total_bits
    /\ \E f \in Pixels : capacity_map[f] = 0
    /\ \E f \in Pixels : capacity_map[f] = 3
    /\ order[0] # 0
    /\ mem[stego] # mem.cover

\* C29 -- Locomotive fragmentation round trip: for every non-empty byte
\* string d and every outcome of the shuffle,
\* defragment_payload(fragment_payload(d)) = d; each record of the stream is
\* "FRAG", a uint32 index, a uint32 length and at most 4096 data bytes; and
\* every index of 0 .. ceil(len(d)/4096) - 1 appears exactly once.
C29_FragmentRoundTrip ==
    pc \in {"fragment_output", "defragment_output"} =>
        LET d == fn_in.data
            st == fn_out.stream
            q == fn_out.shuffled
            count == (Len(d) + 4095) \div 4096
            size == Table([k \in 0 .. count - 1 |->
                              Min2(4096, Len(d) - 4096 * q[k])])
            at == Table([k \in 0 .. count - 1 |->
                            12 * k + SumRange(size, 0, k - 1)])
        IN /\ DOMAIN q = 0 .. count - 1
           /\ \A c \in 0 .. count - 1 :
                  Cardinality({k \in 0 .. count - 1 : q[k] = c}) = 1
           /\ Len(st) = Len(d) + 12 * count
           /\ \A k \in 0 .. count - 1 :
                  LET o == at[k]
                  IN /\ <<st[o + 1], st[o + 2], st[o + 3], st[o + 4]>>
                            = <<70, 82, 65, 71>>
                     /\ <<st[o + 5], st[o + 6]>> = <<0, 0>>
                     /\ st[o + 7] * 256 + st[o + 8] = q[k]
                     /\ <<st[o + 9], st[o + 10]>> = <<0, 0>>
                     /\ st[o + 11] * 256 + st[o + 12] = size[k]
                     /\ size[k] >= 1 /\ size[k] <= 4096
                     /\ \A t \in 1 .. size[k] :
                            st[o + 12 + t] = d[4096 * q[k] + t]
           /\ pc = "defragment_output" => fn_out.data = Ok(d)

C29_Witness ==
    /\ pc = "defragment_output"
    /\ Len(fn_in.data) = 2 * 4096 + 1
    /\ fn_in.data[1] # fn_in.data[4097]
    /\ fn_out.shuffled[0] = 2
    /\ fn_out.shuffled[1] = 0
    /\ fn_out.data = Ok(fn_in.data)

\* C30 -- safety screening soundness: when embed_in_lsb returns
\* successfully, every 8x8 block that contains a pixel differing from the
\* cover has been evaluated by the block safety checker after its last
\* write, and accepted; so no write of such a block is still pending
\* evaluation.
C30_ScreeningSound ==
    pc = "in_lsb_done" =>
        \A b \in Blocks :
            (\E f \in Pixels : BlockMap(f) = b /\ mem[stego][f] # mem.cover[f])
                => pending_changes[b] = <<>>

=============================================================================
